---- MODULE Spec2Model ----
(***************************************************************************)
(* Researcher Terminal: the task / subtask / exploration-note repository   *)
(* (src/database.py, class Database) over the entity model                 *)
(* (src/models.py), as a state machine.                                    *)
(*                                                                         *)
(* The state is the in-memory task list of one Database object, the JSON   *)
(* document it rewrites on every mutation, the wall clock read by          *)
(* datetime.now(), and the outcome of the last repository call.            *)
(*                                                                         *)
(* Free-text attributes that no operation reads (title, description,       *)
(* notes, priority) are not part of the state; conclusion and tags stand   *)
(* for them where an operation writes one.                                 *)
(***************************************************************************)
EXTENDS Integers, Sequences, FiniteSets, TLC

VARIABLES
    tasks,      \* Database.tasks: the list of Task objects
    disk,       \* the document at Database.db_path
    now,        \* the value the next datetime.now() returns
    last        \* the last repository call: its name and what it returned

vars == <<tasks, disk, now, last>>

(***************************************************************************)
(* Bounds of the model.                                                    *)
(***************************************************************************)
MaxTasks == 3
MaxSubtasks == 3
MaxNotes == 2
MaxNow == 2
MaxLive == 3

(***************************************************************************)
(* models.py: the enumerations.  A member is a record carrying the name    *)
(* of its class and its own name; the document stores the bare name.       *)
(***************************************************************************)
TaskStatusNames == {"PENDING", "IN_PROGRESS", "EXPLORING", "COMPLETED", "PAUSED"}
TaskModeNames == {"PLANNING", "EXPLORING"}
TaskKnowledgeNames == {"KNOWN_WHAT_KNOWN_HOW", "KNOWN_WHAT_UNKNOWN_HOW", "UNKNOWN_WHAT"}

TaskStatus == [enum : {"TaskStatus"}, name : TaskStatusNames]
TaskMode == [enum : {"TaskMode"}, name : TaskModeNames]
TaskKnowledge == [enum : {"TaskKnowledge"}, name : TaskKnowledgeNames]

TaskStatus_PENDING == [enum |-> "TaskStatus", name |-> "PENDING"]
TaskStatus_IN_PROGRESS == [enum |-> "TaskStatus", name |-> "IN_PROGRESS"]
TaskStatus_EXPLORING == [enum |-> "TaskStatus", name |-> "EXPLORING"]
TaskStatus_COMPLETED == [enum |-> "TaskStatus", name |-> "COMPLETED"]
TaskStatus_PAUSED == [enum |-> "TaskStatus", name |-> "PAUSED"]
TaskMode_PLANNING == [enum |-> "TaskMode", name |-> "PLANNING"]
TaskMode_EXPLORING == [enum |-> "TaskMode", name |-> "EXPLORING"]
KNOWN_WHAT_KNOWN_HOW == [enum |-> "TaskKnowledge", name |-> "KNOWN_WHAT_KNOWN_HOW"]
KNOWN_WHAT_UNKNOWN_HOW == [enum |-> "TaskKnowledge", name |-> "KNOWN_WHAT_UNKNOWN_HOW"]
UNKNOWN_WHAT == [enum |-> "TaskKnowledge", name |-> "UNKNOWN_WHAT"]

\* Optional[datetime]: None is 0, an instant is a clock value 1, 2, ...
None == 0

(***************************************************************************)
(* Identifiers.  uuid.uuid4() yields an identifier no live object has;     *)
(* identifiers are opaque, so the least unused one stands for it.          *)
(***************************************************************************)
IdsOf(s) == {s[i].id : i \in DOMAIN s}

TaskIds(ts) == IdsOf(ts)
SubtaskIds(ts) == UNION {IdsOf(ts[i].subtasks) : i \in DOMAIN ts}
NoteIds(ts) == UNION {IdsOf(ts[i].exploration_notes) : i \in DOMAIN ts}
UsedIds(ts) == TaskIds(ts) \cup SubtaskIds(ts) \cup NoteIds(ts)

uuid4(ts) ==
    CHOOSE n \in 1..(Cardinality(UsedIds(ts)) + 1) :
        n \notin UsedIds(ts) /\ \A m \in 1..(n - 1) : m \in UsedIds(ts)

(***************************************************************************)
(* models.py: the entities and the methods of Task.  `t` is the instant    *)
(* datetime.now() returns during the call.                                 *)
(***************************************************************************)
SubTask(id, order) ==
    [id |-> id, status |-> TaskStatus_PENDING, order |-> order, completed_at |-> None]

ExplorationNote(id, is_breakthrough, t) ==
    [id |-> id, content |-> "", insight |-> "", created_at |-> t, updated_at |-> t,
     is_breakthrough |-> is_breakthrough]

Task(id, order, status, mode, knowledge, t) ==
    [id |-> id, order |-> order, status |-> status, mode |-> mode,
     knowledge |-> knowledge, subtasks |-> <<>>, exploration_notes |-> <<>>,
     updated_at |-> t, completed_at |-> None, tags |-> <<>>, conclusion |-> ""]

\* setattr(obj, key, value) for every key of the patch that hasattr(obj, key)
ApplyPatch(obj, patch) ==
    [f \in DOMAIN obj |-> IF f \in DOMAIN patch THEN patch[f] ELSE obj[f]]

\* index of the first element with this id, 0 when there is none
IndexOfId(s, id) ==
    IF \E i \in DOMAIN s : s[i].id = id
    THEN CHOOSE i \in DOMAIN s : s[i].id = id /\ \A j \in 1..(i - 1) : s[j].id # id
    ELSE 0

RemoveAt(s, i) == SubSeq(s, 1, i - 1) \o SubSeq(s, i + 1, Len(s))

AllCompleted(subtasks) ==
    \A i \in DOMAIN subtasks : subtasks[i].status = TaskStatus_COMPLETED

Task_add_subtask(task, id, t) ==
    [task EXCEPT !.subtasks = Append(@, SubTask(id, Len(task.subtasks))),
                 !.updated_at = t]

Task_add_exploration_note(task, id, is_breakthrough, t) ==
    [task EXCEPT !.exploration_notes = Append(@, ExplorationNote(id, is_breakthrough, t)),
                 !.updated_at = t]

\* variant: promotes the task without looking at the other subtasks
Task_complete_subtask_any(task, subtask_id, t) ==
    LET i == IndexOfId(task.subtasks, subtask_id) IN
    IF i = 0 THEN [task |-> task, result |-> FALSE]
    ELSE LET subs == [task.subtasks EXCEPT ![i].status = TaskStatus_COMPLETED,
                                           ![i].completed_at = t]
         IN [task |-> [task EXCEPT !.subtasks = subs, !.updated_at = t,
                                   !.status = TaskStatus_COMPLETED, !.completed_at = t],
             result |-> TRUE]

\* returns the task after the call and the boolean the method returns
Task_complete_subtask(task, subtask_id, t) ==
    LET i == IndexOfId(task.subtasks, subtask_id) IN
    IF i = 0 THEN [task |-> task, result |-> FALSE]
    ELSE LET subs == [task.subtasks EXCEPT ![i].status = TaskStatus_COMPLETED,
                                           ![i].completed_at = t]
             t1 == [task EXCEPT !.subtasks = subs, !.updated_at = t]
         IN [task |-> IF AllCompleted(subs)
                      THEN [t1 EXCEPT !.status = TaskStatus_COMPLETED, !.completed_at = t]
                      ELSE t1,
             result |-> TRUE]

Task_switch_to_exploring(task, t) ==
    [task EXCEPT !.mode = TaskMode_EXPLORING, !.status = TaskStatus_EXPLORING,
                 !.knowledge = KNOWN_WHAT_UNKNOWN_HOW, !.updated_at = t]

\* variant: empties the notes when the task leaves the exploring mode
Task_switch_to_planning_archive(task, t) ==
    [task EXCEPT !.mode = TaskMode_PLANNING, !.status = TaskStatus_IN_PROGRESS,
                 !.knowledge = KNOWN_WHAT_KNOWN_HOW, !.exploration_notes = <<>>,
                 !.updated_at = t]

Task_switch_to_planning(task, t) ==
    [task EXCEPT !.mode = TaskMode_PLANNING, !.status = TaskStatus_IN_PROGRESS,
                 !.knowledge = KNOWN_WHAT_KNOWN_HOW, !.updated_at = t]

(***************************************************************************)
(* database.py: the document.  An enum member is written as its name, an   *)
(* instant as its ISO-8601 text, None as JSON null.                        *)
(***************************************************************************)
null == <<>>

isoformat(t) == <<"iso", t>>

fromisoformat(s) == s[2]

OptIso(t) == IF t # None THEN isoformat(t) ELSE null

OptFromIso(j) == IF j # null THEN fromisoformat(j) ELSE None

_task_to_dict(task) ==
    [id |-> task.id, order |-> task.order,
     status |-> task.status.name, mode |-> task.mode.name,
     knowledge |-> task.knowledge.name,
     subtasks |-> [i \in DOMAIN task.subtasks |->
        LET st == task.subtasks[i] IN
        [id |-> st.id, status |-> st.status.name, order |-> st.order,
         completed_at |-> OptIso(st.completed_at)]],
     exploration_notes |-> [i \in DOMAIN task.exploration_notes |->
        LET note == task.exploration_notes[i] IN
        [id |-> note.id, content |-> note.content, insight |-> note.insight,
         created_at |-> isoformat(note.created_at),
         updated_at |-> isoformat(note.updated_at),
         is_breakthrough |-> note.is_breakthrough]],
     updated_at |-> isoformat(task.updated_at),
     completed_at |-> OptIso(task.completed_at),
     tags |-> task.tags,
     conclusion |-> task.conclusion]

\* data.get(key, default)
Get(data, key, default) == IF key \in DOMAIN data THEN data[key] ELSE default

\* the text is one datetime.fromisoformat parses
IsIso(s) == Len(s) = 2 /\ s[1] = "iso"

\* ExplorationNote(id=note_data['id'], ...) as _dict_to_task builds it, for a
\* stored note and for an entry of the older exploration_history alike
_dict_to_note(note_data) ==
    [id |-> note_data.id, content |-> note_data.content,
     insight |-> Get(note_data, "insight", ""),
     created_at |-> fromisoformat(note_data.created_at),
     updated_at |-> fromisoformat(Get(note_data, "updated_at", note_data.created_at)),
     is_breakthrough |-> Get(note_data, "is_breakthrough", FALSE)]

\* variant: builds the subtasks without their completed_at
_dict_to_task_open_subtasks(data, default_order) ==
    [id |-> data.id, order |-> Get(data, "order", default_order),
     status |-> CHOOSE m \in TaskStatus : m.name = data.status,
     mode |-> CHOOSE m \in TaskMode : m.name = data.mode,
     knowledge |-> CHOOSE m \in TaskKnowledge : m.name = data.knowledge,
     subtasks |-> LET sts == Get(data, "subtasks", <<>>) IN
        [i \in DOMAIN sts |->
            [id |-> sts[i].id,
             status |-> CHOOSE m \in TaskStatus : m.name = sts[i].status,
             order |-> Get(sts[i], "order", 0),
             completed_at |-> None]],
     exploration_notes |->
        LET nds == Get(data, "exploration_notes", <<>>)
            history_data == Get(data, "exploration_history", <<>>)
        IN [i \in DOMAIN nds |-> _dict_to_note(nds[i])]
           \o [i \in DOMAIN history_data |-> _dict_to_note(history_data[i])],
     updated_at |-> fromisoformat(data.updated_at),
     completed_at |-> OptFromIso(Get(data, "completed_at", null)),
     tags |-> Get(data, "tags", <<>>),
     conclusion |-> Get(data, "conclusion", "")]

\* variant: puts the entries of exploration_history before the stored notes
_dict_to_task_history_first(data, default_order) ==
    [id |-> data.id, order |-> Get(data, "order", default_order),
     status |-> CHOOSE m \in TaskStatus : m.name = data.status,
     mode |-> CHOOSE m \in TaskMode : m.name = data.mode,
     knowledge |-> CHOOSE m \in TaskKnowledge : m.name = data.knowledge,
     subtasks |-> LET sts == Get(data, "subtasks", <<>>) IN
        [i \in DOMAIN sts |->
            [id |-> sts[i].id,
             status |-> CHOOSE m \in TaskStatus : m.name = sts[i].status,
             order |-> Get(sts[i], "order", 0),
             completed_at |-> OptFromIso(Get(sts[i], "completed_at", null))]],
     exploration_notes |->
        LET nds == Get(data, "exploration_notes", <<>>)
            history_data == Get(data, "exploration_history", <<>>)
        IN [i \in DOMAIN history_data |-> _dict_to_note(history_data[i])]
           \o [i \in DOMAIN nds |-> _dict_to_note(nds[i])],
     updated_at |-> fromisoformat(data.updated_at),
     completed_at |-> OptFromIso(Get(data, "completed_at", null)),
     tags |-> Get(data, "tags", <<>>),
     conclusion |-> Get(data, "conclusion", "")]

_dict_to_task(data, default_order) ==
    [id |-> data.id, order |-> Get(data, "order", default_order),
     status |-> CHOOSE m \in TaskStatus : m.name = data.status,
     mode |-> CHOOSE m \in TaskMode : m.name = data.mode,
     knowledge |-> CHOOSE m \in TaskKnowledge : m.name = data.knowledge,
     subtasks |-> LET sts == Get(data, "subtasks", <<>>) IN
        [i \in DOMAIN sts |->
            [id |-> sts[i].id,
             status |-> CHOOSE m \in TaskStatus : m.name = sts[i].status,
             order |-> Get(sts[i], "order", 0),
             completed_at |-> OptFromIso(Get(sts[i], "completed_at", null))]],
     exploration_notes |->
        LET nds == Get(data, "exploration_notes", <<>>)
            history_data == Get(data, "exploration_history", <<>>)
        IN [i \in DOMAIN nds |-> _dict_to_note(nds[i])]
           \o [i \in DOMAIN history_data |-> _dict_to_note(history_data[i])],
     updated_at |-> fromisoformat(data.updated_at),
     completed_at |-> OptFromIso(Get(data, "completed_at", null)),
     tags |-> Get(data, "tags", <<>>),
     conclusion |-> Get(data, "conclusion", "")]

\* the exceptions of _dict_to_task: KeyError for a required key that is
\* missing and for a name that is no member of the enum, ValueError or
\* TypeError for a text that fromisoformat does not parse
NoteRaises(note_data) ==
    \/ ~({"id", "content", "created_at"} \subseteq DOMAIN note_data)
    \/ ~IsIso(note_data.created_at)
    \/ ~IsIso(Get(note_data, "updated_at", note_data.created_at))

SubTaskRaises(st_data) ==
    \/ ~({"id", "status"} \subseteq DOMAIN st_data)
    \/ st_data.status \notin TaskStatusNames
    \/ LET c == Get(st_data, "completed_at", null) IN c # null /\ ~IsIso(c)

_dict_to_task_raises(data) ==
    \/ ~({"id", "status", "mode", "knowledge", "updated_at"} \subseteq DOMAIN data)
    \/ data.status \notin TaskStatusNames
    \/ data.mode \notin TaskModeNames
    \/ data.knowledge \notin TaskKnowledgeNames
    \/ ~IsIso(data.updated_at)
    \/ LET c == Get(data, "completed_at", null) IN c # null /\ ~IsIso(c)
    \/ LET sts == Get(data, "subtasks", <<>>) IN
        \E i \in DOMAIN sts : SubTaskRaises(sts[i])
    \/ LET nds == Get(data, "exploration_notes", <<>>) IN
        \E i \in DOMAIN nds : NoteRaises(nds[i])
    \/ LET history_data == Get(data, "exploration_history", <<>>) IN
        \E i \in DOMAIN history_data : NoteRaises(history_data[i])

NoFile == [exists |-> FALSE, tasks |-> <<>>, last_updated |-> null]

\* a file json.load does not parse: json.JSONDecodeError
NotJson == [exists |-> TRUE, syntax_error |-> TRUE]

JSONDecodeError(doc) == "syntax_error" \in DOMAIN doc

\* the document _save writes for the task list ts at instant t
_save(ts, t) ==
    [exists |-> TRUE,
     tasks |-> [i \in DOMAIN ts |-> _task_to_dict(ts[i])],
     last_updated |-> isoformat(t)]

\* _load leaves its try block with an exception it does not catch
_load_raises(doc) ==
    /\ doc.exists
    /\ ~JSONDecodeError(doc)
    /\ LET ds == Get(doc, "tasks", <<>>) IN
       \E i \in DOMAIN ds : _dict_to_task_raises(ds[i])

\* the task list _load builds from a document, when it raises nothing
_load(doc) ==
    IF doc.exists /\ ~JSONDecodeError(doc)
    THEN LET ds == Get(doc, "tasks", <<>>) IN
         [i \in DOMAIN ds |-> _dict_to_task(ds[i], i - 1)]
    ELSE <<>>

(***************************************************************************)
(* database.py: the repository operations, as functions of the task list   *)
(* ts, the arguments and the instant t.  Each yields the task list after   *)
(* the call, what the call returns, and whether it called _save.           *)
(***************************************************************************)
Ret(ts, kind, id, save) ==
    [tasks |-> ts, result |-> [kind |-> kind, id |-> id], save |-> save]

\* position (1-based) in sorted(s, key=order) of each index of s; sorted is stable
OrderRank(s, j) ==
    1 + Cardinality({k \in DOMAIN s :
            s[k].order < s[j].order \/ (s[k].order = s[j].order /\ k < j)})

\* sorted(s, key=lambda x: x.order), as the indices of s in sorted sequence
SortedByOrder(s) ==
    [r \in DOMAIN s |-> CHOOSE j \in DOMAIN s : OrderRank(s, j) = r]

Swap(p, a, b) ==
    [p EXCEPT ![a] = p[b], ![b] = p[a]]

Database_create_task(ts, mode, knowledge, t) ==
    LET id == uuid4(ts)
        status == IF mode = TaskMode_EXPLORING THEN TaskStatus_EXPLORING
                  ELSE TaskStatus_PENDING
    IN Ret(Append(ts, Task(id, Len(ts), status, mode, knowledge, t)), "Task", id, TRUE)

Database_update_task(ts, task_id, patch, t) ==
    LET i == IndexOfId(ts, task_id) IN
    IF i = 0 THEN Ret(ts, "None", 0, FALSE)
    ELSE LET task == [ApplyPatch(ts[i], patch) EXCEPT !.updated_at = t]
         IN Ret([ts EXCEPT ![i] = task], "Task", task.id, TRUE)

Database_delete_task(ts, task_id, t) ==
    LET i == IndexOfId(ts, task_id) IN
    IF i = 0 THEN Ret(ts, "False", 0, FALSE)
    ELSE Ret(RemoveAt(ts, i), "True", 0, TRUE)

\* variant: appends the subtask and leaves a COMPLETED task COMPLETED
Database_add_subtask_keep_status(ts, task_id, t) ==
    LET i == IndexOfId(ts, task_id) IN
    IF i = 0 THEN Ret(ts, "None", 0, FALSE)
    ELSE LET id == uuid4(ts)
         IN Ret([ts EXCEPT ![i] = Task_add_subtask(@, id, t)], "SubTask", id, TRUE)

Database_add_subtask(ts, task_id, t) ==
    LET i == IndexOfId(ts, task_id) IN
    IF i = 0 THEN Ret(ts, "None", 0, FALSE)
    ELSE LET id == uuid4(ts)
             t1 == Task_add_subtask(ts[i], id, t)
             t2 == IF t1.status = TaskStatus_COMPLETED
                   THEN [t1 EXCEPT !.status = TaskStatus_IN_PROGRESS,
                                   !.completed_at = None]
                   ELSE t1
         IN Ret([ts EXCEPT ![i] = t2], "SubTask", id, TRUE)

\* variant: looks for an incomplete subtask before the patch is applied
Database_update_subtask_check_first(ts, task_id, subtask_id, patch, t) ==
    LET i == IndexOfId(ts, task_id)
        k == IF i = 0 THEN 0 ELSE IndexOfId(ts[i].subtasks, subtask_id)
    IN
    IF k = 0 THEN Ret(ts, "None", 0, FALSE)
    ELSE LET st == ApplyPatch(ts[i].subtasks[k], patch)
             t1 == [ts[i] EXCEPT !.subtasks[k] = st, !.updated_at = t]
             has_incomplete ==
                \E j \in DOMAIN ts[i].subtasks :
                    ts[i].subtasks[j].status # TaskStatus_COMPLETED
             t2 == IF t1.status = TaskStatus_COMPLETED /\ has_incomplete
                   THEN [t1 EXCEPT !.status = TaskStatus_IN_PROGRESS,
                                   !.completed_at = None]
                   ELSE t1
         IN Ret([ts EXCEPT ![i] = t2], "SubTask", st.id, TRUE)

Database_update_subtask(ts, task_id, subtask_id, patch, t) ==
    LET i == IndexOfId(ts, task_id)
        k == IF i = 0 THEN 0 ELSE IndexOfId(ts[i].subtasks, subtask_id)
    IN
    IF k = 0 THEN Ret(ts, "None", 0, FALSE)
    ELSE LET st == ApplyPatch(ts[i].subtasks[k], patch)
             t1 == [ts[i] EXCEPT !.subtasks[k] = st, !.updated_at = t]
             has_incomplete ==
                \E j \in DOMAIN t1.subtasks :
                    t1.subtasks[j].status # TaskStatus_COMPLETED
             t2 == IF t1.status = TaskStatus_COMPLETED /\ has_incomplete
                   THEN [t1 EXCEPT !.status = TaskStatus_IN_PROGRESS,
                                   !.completed_at = None]
                   ELSE t1
         IN Ret([ts EXCEPT ![i] = t2], "SubTask", st.id, TRUE)

\* variant: completes the task when every subtask that is left is COMPLETED
Database_delete_subtask_recheck(ts, task_id, subtask_id, t) ==
    LET i == IndexOfId(ts, task_id)
        k == IF i = 0 THEN 0 ELSE IndexOfId(ts[i].subtasks, subtask_id)
    IN
    IF k = 0 THEN Ret(ts, "False", 0, FALSE)
    ELSE LET rest == RemoveAt(ts[i].subtasks, k)
             subs == [j \in DOMAIN rest |-> [rest[j] EXCEPT !.order = j - 1]]
             done == /\ subs # <<>>
                     /\ \A j \in DOMAIN subs : subs[j].status = TaskStatus_COMPLETED
         IN Ret([ts EXCEPT ![i] = [@ EXCEPT
                     !.subtasks = subs,
                     !.status = IF done THEN TaskStatus_COMPLETED ELSE @,
                     !.completed_at = IF done THEN t ELSE @,
                     !.updated_at = t]],
                "True", 0, TRUE)

\* variant: removes the subtask and renumbers none
Database_delete_subtask_no_renumber(ts, task_id, subtask_id, t) ==
    LET i == IndexOfId(ts, task_id)
        k == IF i = 0 THEN 0 ELSE IndexOfId(ts[i].subtasks, subtask_id)
    IN
    IF k = 0 THEN Ret(ts, "False", 0, FALSE)
    ELSE LET rest == RemoveAt(ts[i].subtasks, k)
         IN Ret([ts EXCEPT ![i] = [@ EXCEPT !.subtasks = rest, !.updated_at = t]],
                "True", 0, TRUE)

Database_delete_subtask(ts, task_id, subtask_id, t) ==
    LET i == IndexOfId(ts, task_id)
        k == IF i = 0 THEN 0 ELSE IndexOfId(ts[i].subtasks, subtask_id)
    IN
    IF k = 0 THEN Ret(ts, "False", 0, FALSE)
    ELSE LET rest == RemoveAt(ts[i].subtasks, k)
             subs == [j \in DOMAIN rest |-> [rest[j] EXCEPT !.order = j - 1]]
         IN Ret([ts EXCEPT ![i] = [@ EXCEPT !.subtasks = subs, !.updated_at = t]],
                "True", 0, TRUE)

\* variant: exchanges the order values of the two siblings and renumbers nothing
Database_move_subtask_swap_fields(ts, task_id, subtask_id, direction, t) ==
    LET i == IndexOfId(ts, task_id) IN
    IF i = 0 THEN Ret(ts, "False", 0, FALSE)
    ELSE
      LET subs == ts[i].subtasks
          ordered == SortedByOrder(subs)
          ids == [r \in DOMAIN ordered |-> [id |-> subs[ordered[r]].id]]
          current_index == IndexOfId(ids, subtask_id)
          new_index == current_index + direction
      IN
      IF current_index = 0 THEN Ret(ts, "False", 0, FALSE)
      ELSE IF 1 <= new_index /\ new_index <= Len(ordered)
      THEN LET a == ordered[current_index]
               b == ordered[new_index]
               renum == [subs EXCEPT ![a].order = subs[b].order,
                                     ![b].order = subs[a].order]
           IN Ret([ts EXCEPT ![i] = [@ EXCEPT !.subtasks = renum, !.updated_at = t]],
                  "True", 0, TRUE)
      ELSE Ret(ts, "False", 0, FALSE)

\* variant: renumbers, touches and saves before it looks at the bounds
Database_move_subtask_touch(ts, task_id, subtask_id, direction, t) ==
    LET i == IndexOfId(ts, task_id) IN
    IF i = 0 THEN Ret(ts, "False", 0, FALSE)
    ELSE
      LET subs == ts[i].subtasks
          ordered == SortedByOrder(subs)
          ids == [r \in DOMAIN ordered |-> [id |-> subs[ordered[r]].id]]
          current_index == IndexOfId(ids, subtask_id)
          new_index == current_index + direction
          inside == 1 <= new_index /\ new_index <= Len(ordered)
      IN
      IF current_index = 0 THEN Ret(ts, "False", 0, FALSE)
      ELSE LET swapped == IF inside THEN Swap(ordered, current_index, new_index)
                          ELSE ordered
               pos(j) == CHOOSE r \in DOMAIN swapped : swapped[r] = j
               renum == [j \in DOMAIN subs |-> [subs[j] EXCEPT !.order = pos(j) - 1]]
           IN Ret([ts EXCEPT ![i] = [@ EXCEPT !.subtasks = renum, !.updated_at = t]],
                  IF inside THEN "True" ELSE "False", 0, TRUE)

Database_move_subtask(ts, task_id, subtask_id, direction, t) ==
    LET i == IndexOfId(ts, task_id) IN
    IF i = 0 THEN Ret(ts, "False", 0, FALSE)
    ELSE
      LET subs == ts[i].subtasks
          ordered == SortedByOrder(subs)
          ids == [r \in DOMAIN ordered |-> [id |-> subs[ordered[r]].id]]
          current_index == IndexOfId(ids, subtask_id)
          new_index == current_index + direction
      IN
      IF current_index = 0 THEN Ret(ts, "False", 0, FALSE)
      ELSE IF 1 <= new_index /\ new_index <= Len(ordered)
      THEN LET swapped == Swap(ordered, current_index, new_index)
               pos(j) == CHOOSE r \in DOMAIN swapped : swapped[r] = j
               renum == [j \in DOMAIN subs |-> [subs[j] EXCEPT !.order = pos(j) - 1]]
           IN Ret([ts EXCEPT ![i] = [@ EXCEPT !.subtasks = renum, !.updated_at = t]],
                  "True", 0, TRUE)
      ELSE Ret(ts, "False", 0, FALSE)

\* variant: gives the two exchanged tasks their new index and renumbers no other
Database_move_task_pair(ts, task_id, direction, t) ==
    LET current_index == IndexOfId(ts, task_id)
        new_index == current_index + direction
    IN
    IF current_index = 0 THEN Ret(ts, "False", 0, FALSE)
    ELSE IF 1 <= new_index /\ new_index <= Len(ts)
    THEN LET swapped == Swap(ts, current_index, new_index)
         IN Ret([swapped EXCEPT ![current_index].order = current_index - 1,
                                ![new_index].order = new_index - 1],
                "True", 0, TRUE)
    ELSE Ret(ts, "False", 0, FALSE)

Database_move_task(ts, task_id, direction, t) ==
    LET current_index == IndexOfId(ts, task_id)
        new_index == current_index + direction
    IN
    IF current_index = 0 THEN Ret(ts, "False", 0, FALSE)
    ELSE IF 1 <= new_index /\ new_index <= Len(ts)
    THEN LET swapped == Swap(ts, current_index, new_index)
         IN Ret([j \in DOMAIN swapped |-> [swapped[j] EXCEPT !.order = j - 1]],
                "True", 0, TRUE)
    ELSE Ret(ts, "False", 0, FALSE)

\* variant: saves whatever Task.complete_subtask returned
Database_complete_subtask_always_save(ts, task_id, subtask_id, t) ==
    LET i == IndexOfId(ts, task_id) IN
    IF i = 0 THEN Ret(ts, "False", 0, FALSE)
    ELSE LET r == Task_complete_subtask(ts[i], subtask_id, t)
         IN IF r.result THEN Ret([ts EXCEPT ![i] = r.task], "True", 0, TRUE)
            ELSE Ret(ts, "False", 0, TRUE)

Database_complete_subtask(ts, task_id, subtask_id, t) ==
    LET i == IndexOfId(ts, task_id) IN
    IF i = 0 THEN Ret(ts, "False", 0, FALSE)
    ELSE LET r == Task_complete_subtask(ts[i], subtask_id, t)
         IN IF r.result THEN Ret([ts EXCEPT ![i] = r.task], "True", 0, TRUE)
            ELSE Ret(ts, "False", 0, FALSE)

(***************************************************************************)
(* Exploration notes.  merge_tasks_exploration_notes appends the source's  *)
(* note objects themselves to the target, so within the life of one        *)
(* Database object two list entries with the same id are one object: a     *)
(* write to that object shows in every list that holds it.                 *)
(***************************************************************************)
WriteNote(ts, note) ==
    [i \in DOMAIN ts |->
        [ts[i] EXCEPT !.exploration_notes =
            [j \in DOMAIN @ |-> IF @[j].id = note.id THEN note ELSE @[j]]]]

RECURSIVE Concat(_)
Concat(ss) == IF ss = <<>> THEN <<>> ELSE Head(ss) \o Concat(Tail(ss))

\* s with the elements whose id is in ids (keep = TRUE) or is not (keep = FALSE)
FilterIds(s, ids, keep) ==
    LET Test(x) == (x.id \in ids) = keep IN SelectSeq(s, Test)

CreatedRank(s, j) ==
    1 + Cardinality({k \in DOMAIN s :
            s[k].created_at < s[j].created_at
            \/ (s[k].created_at = s[j].created_at /\ k < j)})

\* variant: leaves the notes in the order they were collected in
SortedByCreated_as_collected(s) == s

\* sorted(s, key=lambda note: note.created_at); list.sort is stable
SortedByCreated(s) ==
    [r \in DOMAIN s |-> s[CHOOSE j \in DOMAIN s : CreatedRank(s, j) = r]]

Database_add_exploration_note(ts, task_id, is_breakthrough, t) ==
    LET i == IndexOfId(ts, task_id) IN
    IF i = 0 THEN Ret(ts, "None", 0, FALSE)
    ELSE LET id == uuid4(ts)
         IN Ret([ts EXCEPT ![i] = Task_add_exploration_note(@, id, is_breakthrough, t)],
                "ExplorationNote", id, TRUE)

Database_delete_exploration_note(ts, task_id, note_id, t) ==
    LET i == IndexOfId(ts, task_id)
        k == IF i = 0 THEN 0 ELSE IndexOfId(ts[i].exploration_notes, note_id)
    IN
    IF k = 0 THEN Ret(ts, "False", 0, FALSE)
    ELSE Ret([ts EXCEPT ![i] = [@ EXCEPT !.exploration_notes = RemoveAt(@, k),
                                         !.updated_at = t]],
             "True", 0, TRUE)

Database_update_exploration_note(ts, task_id, note_id, patch, t) ==
    LET i == IndexOfId(ts, task_id)
        k == IF i = 0 THEN 0 ELSE IndexOfId(ts[i].exploration_notes, note_id)
    IN
    IF k = 0 THEN Ret(ts, "None", 0, FALSE)
    ELSE LET note == [ApplyPatch(ts[i].exploration_notes[k], patch)
                        EXCEPT !.updated_at = t]
             ts1 == WriteNote(ts, note)
         IN Ret([ts1 EXCEPT ![i].updated_at = t], "ExplorationNote", note.id, TRUE)

\* variant: exchanges the two notes and returns without saving
Database_move_exploration_note_order_unsaved(ts, task_id, note_id, direction, t) ==
    LET i == IndexOfId(ts, task_id)
        current_index == IF i = 0 THEN 0 ELSE IndexOfId(ts[i].exploration_notes, note_id)
        new_index == current_index + direction
    IN
    IF current_index = 0 THEN Ret(ts, "False", 0, FALSE)
    ELSE IF 1 <= new_index /\ new_index <= Len(ts[i].exploration_notes)
    THEN Ret([ts EXCEPT ![i] =
                [@ EXCEPT !.exploration_notes = Swap(@, current_index, new_index),
                          !.updated_at = t]],
             "True", 0, FALSE)
    ELSE Ret(ts, "False", 0, FALSE)

Database_move_exploration_note_order(ts, task_id, note_id, direction, t) ==
    LET i == IndexOfId(ts, task_id)
        current_index == IF i = 0 THEN 0 ELSE IndexOfId(ts[i].exploration_notes, note_id)
        new_index == current_index + direction
    IN
    IF current_index = 0 THEN Ret(ts, "False", 0, FALSE)
    ELSE IF 1 <= new_index /\ new_index <= Len(ts[i].exploration_notes)
    THEN Ret([ts EXCEPT ![i] =
                [@ EXCEPT !.exploration_notes = Swap(@, current_index, new_index),
                          !.updated_at = t]],
             "True", 0, TRUE)
    ELSE Ret(ts, "False", 0, FALSE)

Database_switch_task_mode(ts, task_id, to_exploring, t) ==
    LET i == IndexOfId(ts, task_id) IN
    IF i = 0 THEN Ret(ts, "None", 0, FALSE)
    ELSE Ret([ts EXCEPT ![i] = IF to_exploring THEN Task_switch_to_exploring(@, t)
                               ELSE Task_switch_to_planning(@, t)],
             "Task", task_id, TRUE)

Database_set_task_conclusion(ts, task_id, conclusion, t) ==
    LET i == IndexOfId(ts, task_id) IN
    IF i = 0 THEN Ret(ts, "None", 0, FALSE)
    ELSE Ret([ts EXCEPT ![i] = [@ EXCEPT !.conclusion = conclusion, !.updated_at = t]],
             "Task", task_id, TRUE)

Database_clear_task_conclusion(ts, task_id, t) ==
    LET i == IndexOfId(ts, task_id) IN
    IF i = 0 THEN Ret(ts, "None", 0, FALSE)
    ELSE Ret([ts EXCEPT ![i] = [@ EXCEPT !.conclusion = "", !.updated_at = t]],
             "Task", task_id, TRUE)

\* variant: puts the note in front of the target's notes
Database_move_exploration_note_front(ts, source_task_id, target_task_id, note_id, t) ==
    LET si == IndexOfId(ts, source_task_id)
        ti == IndexOfId(ts, target_task_id)
        k == IF si = 0 \/ ti = 0 THEN 0 ELSE IndexOfId(ts[si].exploration_notes, note_id)
    IN
    IF k = 0 THEN Ret(ts, "False", 0, FALSE)
    ELSE LET note_to_move == ts[si].exploration_notes[k]
             ts1 == [ts EXCEPT ![si].exploration_notes = RemoveAt(@, k)]
             ts2 == [ts1 EXCEPT ![ti].exploration_notes = <<note_to_move>> \o @]
             ts3 == [ts2 EXCEPT ![si].updated_at = t]
         IN Ret([ts3 EXCEPT ![ti].updated_at = t], "True", 0, TRUE)

Database_move_exploration_note(ts, source_task_id, target_task_id, note_id, t) ==
    LET si == IndexOfId(ts, source_task_id)
        ti == IndexOfId(ts, target_task_id)
        k == IF si = 0 \/ ti = 0 THEN 0 ELSE IndexOfId(ts[si].exploration_notes, note_id)
    IN
    IF k = 0 THEN Ret(ts, "False", 0, FALSE)
    ELSE LET note_to_move == ts[si].exploration_notes[k]
             ts1 == [ts EXCEPT ![si].exploration_notes = RemoveAt(@, k)]
             ts2 == [ts1 EXCEPT ![ti].exploration_notes = Append(@, note_to_move)]
             ts3 == [ts2 EXCEPT ![si].updated_at = t]
         IN Ret([ts3 EXCEPT ![ti].updated_at = t], "True", 0, TRUE)

Database_batch_delete_exploration_notes(ts, task_id, note_ids, t) ==
    LET i == IndexOfId(ts, task_id) IN
    IF i = 0 \/ note_ids = {} THEN Ret(ts, "False", 0, FALSE)
    ELSE LET kept == FilterIds(ts[i].exploration_notes, note_ids, FALSE) IN
         IF Len(kept) = Len(ts[i].exploration_notes) THEN Ret(ts, "False", 0, FALSE)
         ELSE Ret([ts EXCEPT ![i] = [@ EXCEPT !.exploration_notes = kept,
                                              !.updated_at = t]],
                  "True", 0, TRUE)

\* variant: puts the moved notes in front of the target's notes
Database_batch_move_exploration_notes_front(ts, source_task_id, target_task_id, note_ids, t) ==
    LET si == IndexOfId(ts, source_task_id)
        ti == IndexOfId(ts, target_task_id)
    IN
    IF si = 0 \/ ti = 0 \/ note_ids = {} THEN Ret(ts, "False", 0, FALSE)
    ELSE LET notes_to_move == FilterIds(ts[si].exploration_notes, note_ids, TRUE) IN
         IF notes_to_move = <<>> THEN Ret(ts, "False", 0, FALSE)
         ELSE LET ts1 == [ts EXCEPT ![si].exploration_notes = FilterIds(@, note_ids, FALSE)]
                  ts2 == [ts1 EXCEPT ![ti].exploration_notes = notes_to_move \o @]
                  ts3 == [ts2 EXCEPT ![si].updated_at = t]
              IN Ret([ts3 EXCEPT ![ti].updated_at = t], "True", 0, TRUE)

Database_batch_move_exploration_notes(ts, source_task_id, target_task_id, note_ids, t) ==
    LET si == IndexOfId(ts, source_task_id)
        ti == IndexOfId(ts, target_task_id)
    IN
    IF si = 0 \/ ti = 0 \/ note_ids = {} THEN Ret(ts, "False", 0, FALSE)
    ELSE LET notes_to_move == FilterIds(ts[si].exploration_notes, note_ids, TRUE) IN
         IF notes_to_move = <<>> THEN Ret(ts, "False", 0, FALSE)
         ELSE LET ts1 == [ts EXCEPT ![si].exploration_notes = FilterIds(@, note_ids, FALSE)]
                  ts2 == [ts1 EXCEPT ![ti].exploration_notes = @ \o notes_to_move]
                  ts3 == [ts2 EXCEPT ![si].updated_at = t]
              IN Ret([ts3 EXCEPT ![ti].updated_at = t], "True", 0, TRUE)

\* variant: the new note does not take the insight over
Database_copy_exploration_note_no_insight(ts, source_task_id, target_task_id, note_id, t) ==
    LET si == IndexOfId(ts, source_task_id)
        ti == IndexOfId(ts, target_task_id)
        k == IF si = 0 \/ ti = 0 THEN 0 ELSE IndexOfId(ts[si].exploration_notes, note_id)
    IN
    IF k = 0 THEN Ret(ts, "None", 0, FALSE)
    ELSE LET source_note == ts[si].exploration_notes[k]
             new_note == [ExplorationNote(uuid4(ts), source_note.is_breakthrough, t)
                            EXCEPT !.content = source_note.content]
         IN Ret([ts EXCEPT ![ti] = [@ EXCEPT !.exploration_notes = Append(@, new_note),
                                             !.updated_at = t]],
                "ExplorationNote", new_note.id, TRUE)

Database_copy_exploration_note(ts, source_task_id, target_task_id, note_id, t) ==
    LET si == IndexOfId(ts, source_task_id)
        ti == IndexOfId(ts, target_task_id)
        k == IF si = 0 \/ ti = 0 THEN 0 ELSE IndexOfId(ts[si].exploration_notes, note_id)
    IN
    IF k = 0 THEN Ret(ts, "None", 0, FALSE)
    ELSE LET source_note == ts[si].exploration_notes[k]
             new_note == [ExplorationNote(uuid4(ts), source_note.is_breakthrough, t)
                            EXCEPT !.content = source_note.content,
                                   !.insight = source_note.insight]
         IN Ret([ts EXCEPT ![ti] = [@ EXCEPT !.exploration_notes = Append(@, new_note),
                                             !.updated_at = t]],
                "ExplorationNote", new_note.id, TRUE)

\* variant: appends every collected note, also one the target already holds
Database_merge_tasks_exploration_notes_all(ts, source_task_ids, target_task_id, new_task, t) ==
    LET src == [n \in DOMAIN source_task_ids |-> IndexOfId(ts, source_task_ids[n])] IN
    IF source_task_ids = <<>> \/ \E n \in DOMAIN src : src[n] = 0
    THEN Ret(ts, "False", 0, FALSE)
    ELSE
      LET created == Database_create_task(ts, TaskMode_EXPLORING, KNOWN_WHAT_UNKNOWN_HOW, t)
          ts1 == IF new_task THEN created.tasks ELSE ts
          ti == IF new_task THEN Len(ts1) ELSE IndexOfId(ts, target_task_id)
      IN
      IF ti = 0 THEN Ret(ts, "False", 0, FALSE)
      ELSE
        LET all_notes ==
                SortedByCreated(Concat([n \in DOMAIN src |-> ts[src[n]].exploration_notes]))
            ts2 == [ts1 EXCEPT ![ti] = [@ EXCEPT !.exploration_notes = @ \o all_notes,
                                                 !.updated_at = t]]
        IN IF new_task THEN Ret(ts2, "id", ts2[ti].id, TRUE)
           ELSE Ret(ts2, "True", 0, TRUE)

\* variant: creates the new task before it looks the sources up
Database_merge_tasks_exploration_notes_create_first(ts, source_task_ids, target_task_id, new_task, t) ==
    LET src == [n \in DOMAIN source_task_ids |-> IndexOfId(ts, source_task_ids[n])]
        created == Database_create_task(ts, TaskMode_EXPLORING, KNOWN_WHAT_UNKNOWN_HOW, t)
        ts1 == IF new_task THEN created.tasks ELSE ts
        ti == IF new_task THEN Len(ts1) ELSE IndexOfId(ts, target_task_id)
    IN
    IF ti = 0 THEN Ret(ts, "False", 0, FALSE)
    ELSE IF source_task_ids = <<>> \/ \E n \in DOMAIN src : src[n] = 0
    THEN Ret(ts1, "False", 0, new_task)
    ELSE
        LET all_notes ==
                SortedByCreated(Concat([n \in DOMAIN src |-> ts[src[n]].exploration_notes]))
            existing_note_ids == IdsOf(ts1[ti].exploration_notes)
            added == FilterIds(all_notes, existing_note_ids, FALSE)
            ts2 == [ts1 EXCEPT ![ti] = [@ EXCEPT !.exploration_notes = @ \o added,
                                                 !.updated_at = t]]
        IN IF new_task THEN Ret(ts2, "id", ts2[ti].id, TRUE)
           ELSE Ret(ts2, "True", 0, TRUE)

\* new_task is TRUE for a non-empty new_task_title
Database_merge_tasks_exploration_notes(ts, source_task_ids, target_task_id, new_task, t) ==
    LET src == [n \in DOMAIN source_task_ids |-> IndexOfId(ts, source_task_ids[n])] IN
    IF source_task_ids = <<>> \/ \E n \in DOMAIN src : src[n] = 0
    THEN Ret(ts, "False", 0, FALSE)
    ELSE
      LET created == Database_create_task(ts, TaskMode_EXPLORING, KNOWN_WHAT_UNKNOWN_HOW, t)
          ts1 == IF new_task THEN created.tasks ELSE ts
          ti == IF new_task THEN Len(ts1) ELSE IndexOfId(ts, target_task_id)
      IN
      IF ti = 0 THEN Ret(ts, "False", 0, FALSE)
      ELSE
        LET all_notes ==
                SortedByCreated(Concat([n \in DOMAIN src |-> ts[src[n]].exploration_notes]))
            existing_note_ids == IdsOf(ts1[ti].exploration_notes)
            added == FilterIds(all_notes, existing_note_ids, FALSE)
            ts2 == [ts1 EXCEPT ![ti] = [@ EXCEPT !.exploration_notes = @ \o added,
                                                 !.updated_at = t]]
        IN IF new_task THEN Ret(ts2, "id", ts2[ti].id, TRUE)
           ELSE Ret(ts2, "True", 0, TRUE)

(***************************************************************************)
(* One repository call: the in-memory list becomes the call's, the         *)
(* document is rewritten when the call saved, the outcome is recorded.     *)
(***************************************************************************)
Call(op, args, r) ==
    /\ tasks' = r.tasks
    /\ disk' = IF r.save THEN _save(r.tasks, now) ELSE disk
    /\ last' = [op |-> op, args |-> args, result |-> r.result]
    /\ UNCHANGED now

create_task(mode, knowledge) ==
    Call("create_task", <<mode, knowledge>>, Database_create_task(tasks, mode, knowledge, now))

update_task(task_id, patch) ==
    Call("update_task", <<task_id, patch>>, Database_update_task(tasks, task_id, patch, now))

delete_task(task_id) ==
    Call("delete_task", <<task_id>>, Database_delete_task(tasks, task_id, now))

add_subtask(task_id) ==
    Call("add_subtask", <<task_id>>, Database_add_subtask(tasks, task_id, now))

update_subtask(task_id, subtask_id, patch) ==
    Call("update_subtask", <<task_id, subtask_id, patch>>, Database_update_subtask(tasks, task_id, subtask_id, patch, now))

delete_subtask(task_id, subtask_id) ==
    Call("delete_subtask", <<task_id, subtask_id>>, Database_delete_subtask(tasks, task_id, subtask_id, now))

move_subtask(task_id, subtask_id, direction) ==
    Call("move_subtask", <<task_id, subtask_id, direction>>, Database_move_subtask(tasks, task_id, subtask_id, direction, now))

move_task(task_id, direction) ==
    Call("move_task", <<task_id, direction>>, Database_move_task(tasks, task_id, direction, now))

complete_subtask(task_id, subtask_id) ==
    Call("complete_subtask", <<task_id, subtask_id>>, Database_complete_subtask(tasks, task_id, subtask_id, now))

add_exploration_note(task_id, is_breakthrough) ==
    Call("add_exploration_note", <<task_id, is_breakthrough>>,
         Database_add_exploration_note(tasks, task_id, is_breakthrough, now))

delete_exploration_note(task_id, note_id) ==
    Call("delete_exploration_note", <<task_id, note_id>>,
         Database_delete_exploration_note(tasks, task_id, note_id, now))

update_exploration_note(task_id, note_id, patch) ==
    Call("update_exploration_note", <<task_id, note_id, patch>>,
         Database_update_exploration_note(tasks, task_id, note_id, patch, now))

move_exploration_note_order(task_id, note_id, direction) ==
    Call("move_exploration_note_order", <<task_id, note_id, direction>>,
         Database_move_exploration_note_order(tasks, task_id, note_id, direction, now))

switch_task_mode(task_id, to_exploring) ==
    Call("switch_task_mode", <<task_id, to_exploring>>, Database_switch_task_mode(tasks, task_id, to_exploring, now))

set_task_conclusion(task_id, conclusion) ==
    Call("set_task_conclusion", <<task_id, conclusion>>,
         Database_set_task_conclusion(tasks, task_id, conclusion, now))

clear_task_conclusion(task_id) ==
    Call("clear_task_conclusion", <<task_id>>, Database_clear_task_conclusion(tasks, task_id, now))

move_exploration_note(source_task_id, target_task_id, note_id) ==
    Call("move_exploration_note", <<source_task_id, target_task_id, note_id>>,
         Database_move_exploration_note(tasks, source_task_id, target_task_id, note_id, now))

batch_delete_exploration_notes(task_id, note_ids) ==
    Call("batch_delete_exploration_notes", <<task_id, note_ids>>,
         Database_batch_delete_exploration_notes(tasks, task_id, note_ids, now))

batch_move_exploration_notes(source_task_id, target_task_id, note_ids) ==
    Call("batch_move_exploration_notes", <<source_task_id, target_task_id, note_ids>>,
         Database_batch_move_exploration_notes(tasks, source_task_id, target_task_id,
                                               note_ids, now))

copy_exploration_note(source_task_id, target_task_id, note_id) ==
    Call("copy_exploration_note", <<source_task_id, target_task_id, note_id>>,
         Database_copy_exploration_note(tasks, source_task_id, target_task_id, note_id, now))

merge_tasks_exploration_notes(source_task_ids, target_task_id, new_task) ==
    Call("merge_tasks_exploration_notes", <<source_task_ids, target_task_id, new_task>>,
         Database_merge_tasks_exploration_notes(tasks, source_task_ids, target_task_id,
                                                new_task, now))

\* Database(db_path): __init__ empties self.tasks and calls _load; an exception
\* of _load leaves __init__ and no Database is constructed
__init__ ==
    /\ tasks' = IF _load_raises(disk) THEN <<>> ELSE _load(disk)
    /\ last' = [op |-> "_load", args |-> <<>>,
                result |-> [kind |-> IF _load_raises(disk) THEN "raise" ELSE "None",
                            id |-> 0]]
    /\ UNCHANGED <<disk, now>>

(***************************************************************************)
(* The inputs of the calls.                                                *)
(***************************************************************************)
Directions == {-1, 1}

CreateArgs ==
    {<<TaskMode_PLANNING, KNOWN_WHAT_KNOWN_HOW>>,
     <<TaskMode_EXPLORING, KNOWN_WHAT_UNKNOWN_HOW>>}

Conclusions == {"found"}

\* **kwargs of update_task
TaskPatches ==
    {[status |-> TaskStatus_COMPLETED],
     [status |-> TaskStatus_COMPLETED, completed_at |-> now],
     [updated_at |-> now],
     [no_such_attribute |-> 0]}

\* **kwargs of update_subtask
StatusPatches ==
    {[status |-> TaskStatus_PENDING, completed_at |-> None],
     [status |-> TaskStatus_COMPLETED],
     [no_such_attribute |-> 0]}

OrderPatches == {[order |-> k] : k \in 0..MaxSubtasks}

\* **kwargs of update_exploration_note
NotePatches == {[is_breakthrough |-> b] : b \in BOOLEAN}

\* an id argument: 0 is the id of no object
LiveTasks == TaskIds(tasks)
LiveSubTasks == SubtaskIds(tasks)
LiveNotes == NoteIds(tasks)
TaskArgs == LiveTasks \cup {0}
SubTaskArgs == LiveSubTasks \cup {0}
NoteArgs == LiveNotes \cup {0}
\* any id in use, of whatever kind of object, or 0
IdArgs == UsedIds(tasks) \cup {0}

RECURSIVE Live(_)
\* the number of tasks, subtasks and notes held in memory
Live(ts) ==
    IF ts = <<>> THEN 0
    ELSE 1 + Len(Head(ts).subtasks) + Len(Head(ts).exploration_notes) + Live(Tail(ts))

(***************************************************************************)
(* Spec: a Database constructed with no file at db_path (_load leaves the  *)
(* list empty), then any sequence of calls of the task, subtask and note   *)
(* operations with the ids of live objects, as the GUI makes them (a       *)
(* subtask or note id may still belong to another task).                   *)
(***************************************************************************)
Init ==
    /\ disk = NoFile
    /\ tasks = _load(disk)
    /\ now = 1
    /\ last = [op |-> "__init__", args |-> <<>>, result |-> [kind |-> "None", id |-> 0]]

Next ==
    \/ \E a \in CreateArgs : create_task(a[1], a[2]) /\ Live(tasks') <= MaxLive
    \/ \E id \in LiveTasks, patch \in TaskPatches : update_task(id, patch)
    \/ \E id \in LiveTasks, b \in BOOLEAN : switch_task_mode(id, b)
    \/ \E id \in LiveTasks : add_subtask(id) /\ Live(tasks') <= MaxLive
    \/ \E id \in LiveTasks, sid \in LiveSubTasks, patch \in StatusPatches :
            update_subtask(id, sid, patch)
    \/ \E id \in LiveTasks, sid \in LiveSubTasks : delete_subtask(id, sid)
    \/ \E id \in LiveTasks, sid \in LiveSubTasks, d \in Directions :
            move_subtask(id, sid, d)
    \/ \E id \in LiveTasks, sid \in LiveSubTasks : complete_subtask(id, sid)
    \/ \E id \in LiveTasks, b \in BOOLEAN :
            add_exploration_note(id, b) /\ Live(tasks') <= MaxLive
    \/ \E id \in LiveTasks, nid \in LiveNotes : delete_exploration_note(id, nid)
    \/ \E id \in LiveTasks, nid \in LiveNotes, patch \in NotePatches :
            update_exploration_note(id, nid, patch)
    \/ \E id \in LiveTasks, nid \in LiveNotes, d \in Directions :
            move_exploration_note_order(id, nid, d)

Spec == Init /\ [][Next]_vars

(***************************************************************************)
(* A Database constructed over a document an earlier session saved, and    *)
(* the first call made on it.  The document was written at instant 1; the  *)
(* call happens then or later.                                             *)
(***************************************************************************)
Loaded(ts) ==
    /\ disk = _save(ts, 1)
    /\ tasks = _load(disk)
    /\ now \in 1..MaxNow
    /\ last = [op |-> "__init__", args |-> <<>>, result |-> [kind |-> "None", id |-> 0]]

\* no call has been made yet on the constructed Database
Fresh == last.op = "__init__"

KnowledgeOf(mode) ==
    IF mode = TaskMode_EXPLORING THEN KNOWN_WHAT_UNKNOWN_HOW ELSE KNOWN_WHAT_KNOWN_HOW

\* n subtasks with ids first_id, first_id + 1, ...; a completed one was completed at 1
MkSubTasks(n, first_id, orders, statuses) ==
    [j \in 1..n |->
        [id |-> first_id + j - 1, status |-> statuses[j], order |-> orders[j],
         completed_at |-> IF statuses[j] = TaskStatus_COMPLETED THEN 1 ELSE None]]

MkNotes(m, first_id) ==
    [j \in 1..m |-> ExplorationNote(first_id + j - 1, FALSE, 1)]

(***************************************************************************)
(* One task whose subtasks were added in turn (orders 0..n-1) and then     *)
(* completed or not; the task's own status, mode and completed_at are any  *)
(* that update_task, switch_task_mode and complete_subtask leave.          *)
(***************************************************************************)
StatusStores ==
    UNION {
        {<<[Task(1, 0, st, m, KnowledgeOf(m), 1) EXCEPT
                !.completed_at = c,
                !.subtasks = MkSubTasks(n, 2, [j \in 1..n |-> j - 1], g)]>> :
            st \in TaskStatus, m \in TaskMode, c \in {None, 1},
            g \in [1..n -> {TaskStatus_PENDING, TaskStatus_COMPLETED}]} :
        n \in 0..MaxSubtasks}

(***************************************************************************)
(* One task whose subtasks carry any order values, as update_subtask with  *)
(* order=k and move_subtask leave them: gaps, duplicates, and a sequence   *)
(* by order that differs from the sequence in the list.                    *)
(***************************************************************************)
OrderStores ==
    UNION {
        {<<[Task(1, 0, TaskStatus_PENDING, TaskMode_PLANNING, KNOWN_WHAT_KNOWN_HOW, 1)
                EXCEPT !.subtasks =
                    MkSubTasks(n, 2, f, [j \in 1..n |-> TaskStatus_PENDING])]>> :
            f \in [1..n -> 0..MaxSubtasks]} :
        n \in 0..MaxSubtasks}

InitSubTasks == \E ts \in StatusStores \cup OrderStores : Loaded(ts)

NextSubTasks ==
    \/ \E id \in TaskArgs : Fresh /\ add_subtask(id)
    \/ \E id \in TaskArgs, sid \in IdArgs, patch \in StatusPatches \cup OrderPatches :
            Fresh /\ update_subtask(id, sid, patch)
    \/ \E id \in TaskArgs, sid \in IdArgs : Fresh /\ delete_subtask(id, sid)
    \/ \E id \in TaskArgs, sid \in IdArgs, d \in Directions :
            Fresh /\ move_subtask(id, sid, d)
    \/ \E id \in TaskArgs, sid \in IdArgs : Fresh /\ complete_subtask(id, sid)

SpecSubTasks == InitSubTasks /\ [][NextSubTasks]_vars

(***************************************************************************)
(* Up to MaxTasks bare tasks carrying stale order values (delete_task does *)
(* not renumber the tasks it leaves, update_task can write any order); and *)
(* two tasks, a planning one with up to two subtasks and some notes and an *)
(* exploring one with some notes.                                          *)
(***************************************************************************)
TaskStores ==
    UNION {
        {[i \in 1..n |->
            Task(i, f[i], TaskStatus_PENDING, TaskMode_PLANNING, KNOWN_WHAT_KNOWN_HOW, 1)] :
            f \in [1..n -> {0, MaxTasks}]} :
        n \in 0..MaxTasks}

MixedStores ==
    {<<[Task(1, 0, TaskStatus_PENDING, TaskMode_PLANNING, KNOWN_WHAT_KNOWN_HOW, 1) EXCEPT
            !.subtasks = MkSubTasks(k, 3, [j \in 1..k |-> j - 1],
                                    [j \in 1..k |-> TaskStatus_PENDING]),
            !.exploration_notes = MkNotes(m1, 3 + k)],
       [Task(2, 1, TaskStatus_EXPLORING, TaskMode_EXPLORING, KNOWN_WHAT_UNKNOWN_HOW, 1)
            EXCEPT !.exploration_notes = MkNotes(m2, 3 + k + m1)]>> :
        k \in 0..2, m1 \in 0..MaxNotes, m2 \in 0..MaxNotes}

InitRepo == \E ts \in TaskStores \cup MixedStores : Loaded(ts)

NextRepo ==
    \/ \E a \in CreateArgs : Fresh /\ create_task(a[1], a[2])
    \/ \E id \in TaskArgs, patch \in TaskPatches : Fresh /\ update_task(id, patch)
    \/ \E id \in TaskArgs : Fresh /\ delete_task(id)
    \/ \E id \in TaskArgs, d \in Directions : Fresh /\ move_task(id, d)
    \/ \E id \in TaskArgs, b \in BOOLEAN : Fresh /\ switch_task_mode(id, b)
    \/ \E id \in TaskArgs, c \in Conclusions : Fresh /\ set_task_conclusion(id, c)
    \/ \E id \in TaskArgs : Fresh /\ clear_task_conclusion(id)
    \/ \E id \in TaskArgs : Fresh /\ add_subtask(id)
    \/ \E id \in TaskArgs, sid \in SubTaskArgs, patch \in StatusPatches :
            Fresh /\ update_subtask(id, sid, patch)
    \/ \E id \in TaskArgs, sid \in SubTaskArgs : Fresh /\ delete_subtask(id, sid)
    \/ \E id \in TaskArgs, sid \in SubTaskArgs, d \in Directions :
            Fresh /\ move_subtask(id, sid, d)
    \/ \E id \in TaskArgs, sid \in SubTaskArgs : Fresh /\ complete_subtask(id, sid)
    \/ \E id \in TaskArgs, b \in BOOLEAN : Fresh /\ add_exploration_note(id, b)
    \/ \E id \in TaskArgs, nid \in NoteArgs : Fresh /\ delete_exploration_note(id, nid)
    \/ \E id \in TaskArgs, nid \in NoteArgs, patch \in NotePatches :
            Fresh /\ update_exploration_note(id, nid, patch)
    \/ \E id \in TaskArgs, nid \in NoteArgs, d \in Directions :
            Fresh /\ move_exploration_note_order(id, nid, d)
    \/ \E s \in TaskArgs, g \in TaskArgs, nid \in NoteArgs :
            Fresh /\ move_exploration_note(s, g, nid)
    \/ \E s \in TaskArgs, g \in TaskArgs, nid \in NoteArgs :
            Fresh /\ copy_exploration_note(s, g, nid)
    \/ \E id \in TaskArgs, nids \in SUBSET NoteArgs :
            Fresh /\ batch_delete_exploration_notes(id, nids)
    \/ \E s \in TaskArgs, g \in TaskArgs, nids \in SUBSET NoteArgs :
            Fresh /\ batch_move_exploration_notes(s, g, nids)
    \/ \E a \in TaskArgs, b \in TaskArgs, g \in TaskArgs, new_task \in BOOLEAN :
            Fresh /\ merge_tasks_exploration_notes(<<a, b>>, g, new_task)
    \/ \E a \in TaskArgs, g \in TaskArgs, new_task \in BOOLEAN :
            Fresh /\ merge_tasks_exploration_notes(<<a>>, g, new_task)
    \/ \E g \in TaskArgs, new_task \in BOOLEAN :
            Fresh /\ merge_tasks_exploration_notes(<<>>, g, new_task)

SpecRepo == InitRepo /\ [][NextRepo]_vars

(***************************************************************************)
(* Properties.  A property of one operation is a property of every step    *)
(* that is a call of it: the state before the step is the state the call   *)
(* found, the state after it the state the call left.  Every call records  *)
(* its name in last.op; a property names it first so that the steps of the *)
(* other operations are set aside at once.                                 *)
(***************************************************************************)
TaskOf(ts, task_id) == ts[IndexOfId(ts, task_id)]

\* the ids of subs read in ascending order, as the GUI lists them
OrderedIds(subs) == [r \in DOMAIN subs |-> subs[SortedByOrder(subs)[r]].id]

OrderValues(subs) == {subs[j].order : j \in DOMAIN subs}

Normalized(subs) ==
    /\ OrderValues(subs) = 0..(Len(subs) - 1)
    /\ \A j, k \in DOMAIN subs : subs[j].order = subs[k].order => j = k

HasSubTask(ts, task_id, subtask_id) ==
    /\ task_id \in TaskIds(ts)
    /\ subtask_id \in IdsOf(TaskOf(ts, task_id).subtasks)

Called(op, kind) == last.op = op /\ last.result.kind = kind

\* C1: in every state reached from the empty store, a task whose status is
\* COMPLETED has no subtasks or only subtasks whose status is COMPLETED.
C1_CompletedTaskHasCompletedSubtasks ==
    \A i \in DOMAIN tasks :
        tasks[i].status = TaskStatus_COMPLETED => AllCompleted(tasks[i].subtasks)

\* C2: complete_subtask on a subtask of a task sets the subtask COMPLETED; if
\* every other subtask is COMPLETED the task ends COMPLETED with a non-null
\* completed_at, whatever its status and mode were; if another subtask is
\* not COMPLETED the task's status is left as it was.
C2_CompleteLastSubtaskCompletesTask ==
    [][\A task_id \in TaskArgs, subtask_id \in IdArgs :
        (/\ last'.op = "complete_subtask"
         /\ complete_subtask(task_id, subtask_id)
         /\ HasSubTask(tasks, task_id, subtask_id)) =>
            LET before == TaskOf(tasks, task_id)
                after == TaskOf(tasks', task_id)
                k == IndexOfId(before.subtasks, subtask_id)
                others_done == \A j \in DOMAIN before.subtasks :
                                  j # k => before.subtasks[j].status = TaskStatus_COMPLETED
            IN /\ last'.result.kind = "True"
               /\ after.subtasks[k].status = TaskStatus_COMPLETED
               /\ others_done => /\ after.status = TaskStatus_COMPLETED
                                 /\ after.completed_at # None
               /\ ~others_done => after.status = before.status]_vars

C2_LastSubtaskCompleted ==
    /\ Called("complete_subtask", "True")
    /\ LET task == TaskOf(tasks, last.args[1]) IN
       /\ Len(task.subtasks) >= 2
       /\ AllCompleted(task.subtasks)
       /\ task.mode = TaskMode_EXPLORING
       /\ task.status = TaskStatus_COMPLETED
       /\ task.completed_at = now
       /\ now > 1
       /\ \E j \in DOMAIN task.subtasks :
            /\ task.subtasks[j].id = last.args[2]
            /\ task.subtasks[j].completed_at = now

\* C3: add_subtask on a task appends one PENDING subtask; a task that was
\* COMPLETED ends IN_PROGRESS with completed_at null, a task in any other
\* status keeps its status and its completed_at.
C3_AddSubtaskReopensCompletedTask ==
    [][\A task_id \in TaskArgs :
        (/\ last'.op = "add_subtask"
         /\ add_subtask(task_id)
         /\ task_id \in TaskIds(tasks)) =>
            LET before == TaskOf(tasks, task_id)
                after == TaskOf(tasks', task_id)
                n == Len(before.subtasks)
            IN /\ Len(after.subtasks) = n + 1
               /\ SubSeq(after.subtasks, 1, n) = before.subtasks
               /\ after.subtasks[n + 1].status = TaskStatus_PENDING
               /\ after.subtasks[n + 1].id = last'.result.id
               /\ IF before.status = TaskStatus_COMPLETED
                  THEN after.status = TaskStatus_IN_PROGRESS /\ after.completed_at = None
                  ELSE after.status = before.status
                       /\ after.completed_at = before.completed_at]_vars

C3_SubtaskAddedToCompletedTask ==
    /\ Called("add_subtask", "SubTask")
    /\ LET task == TaskOf(tasks, last.args[1])
           n == Len(task.subtasks)
       IN /\ n >= 2
          /\ AllCompleted(SubSeq(task.subtasks, 1, n - 1))
          /\ task.subtasks[n].id = last.result.id
          /\ task.subtasks[n].status = TaskStatus_PENDING
          /\ task.status = TaskStatus_IN_PROGRESS
          /\ task.completed_at = None
          /\ _load(disk)[1].status = TaskStatus_IN_PROGRESS

\* C4: update_subtask looks at the subtasks as they are after the patch: a
\* task that was COMPLETED ends IN_PROGRESS with completed_at null if some
\* subtask is then not COMPLETED, and stays COMPLETED if all of them are.
C4_UpdateSubtaskRechecksCompletedTask ==
    [][\A task_id \in TaskArgs, subtask_id \in IdArgs,
         patch \in StatusPatches \cup OrderPatches :
        (/\ last'.op = "update_subtask"
         /\ HasSubTask(tasks, task_id, subtask_id)
         /\ TaskOf(tasks, task_id).status = TaskStatus_COMPLETED
         /\ update_subtask(task_id, subtask_id, patch)) =>
            LET before == TaskOf(tasks, task_id)
                after == TaskOf(tasks', task_id)
                k == IndexOfId(before.subtasks, subtask_id)
            IN /\ "status" \in DOMAIN patch => after.subtasks[k].status = patch.status
               /\ IF AllCompleted(after.subtasks)
                  THEN after.status = TaskStatus_COMPLETED
                       /\ after.completed_at = before.completed_at
                  ELSE after.status = TaskStatus_IN_PROGRESS
                       /\ after.completed_at = None]_vars

C4_CompletedSubtaskSetPending ==
    /\ Called("update_subtask", "SubTask")
    /\ last.args[3] = [status |-> TaskStatus_PENDING, completed_at |-> None]
    /\ LET task == TaskOf(tasks, last.args[1]) IN
       /\ Len(task.subtasks) >= 2
       /\ \A j \in DOMAIN task.subtasks :
            IF task.subtasks[j].id = last.args[2]
            THEN task.subtasks[j].status = TaskStatus_PENDING
            ELSE task.subtasks[j].status = TaskStatus_COMPLETED
       /\ task.status = TaskStatus_IN_PROGRESS
       /\ task.completed_at = None

PositionOf(seq, x) == CHOOSE r \in DOMAIN seq : seq[r] = x

\* C5: move_subtask by d on the subtask at position i of the order-sorted
\* sequence, with i+d inside the sequence, returns true; the order-sorted
\* sequence after the call is the one before it with positions i and i+d
\* exchanged, and the order values are exactly 0..N-1 without duplicates,
\* whatever gaps or duplicates the order values had before.
C5_MoveSubtaskSwapsNeighbours ==
    [][\A task_id \in TaskArgs, subtask_id \in IdArgs, d \in Directions :
        (/\ last'.op = "move_subtask"
         /\ move_subtask(task_id, subtask_id, d)
         /\ HasSubTask(tasks, task_id, subtask_id)) =>
            LET before == TaskOf(tasks, task_id).subtasks
                after == TaskOf(tasks', task_id).subtasks
                i == PositionOf(OrderedIds(before), subtask_id)
            IN (1 <= i + d /\ i + d <= Len(before)) =>
                /\ last'.result.kind = "True"
                /\ OrderedIds(after) = Swap(OrderedIds(before), i, i + d)
                /\ Normalized(after)]_vars

\* [A, B, C] after B was moved by +1: A 0, B 2, C 1
C5_MiddleSubtaskMovedDown ==
    /\ Called("move_subtask", "True")
    /\ last.args[3] = 1
    /\ LET subs == TaskOf(tasks, last.args[1]).subtasks IN
       /\ Len(subs) = 3
       /\ subs[2].id = last.args[2]
       /\ [j \in 1..3 |-> subs[j].order] = <<0, 2, 1>>
       /\ OrderedIds(subs) = <<subs[1].id, subs[3].id, subs[2].id>>

\* C6: move_subtask on the first subtask of the order-sorted sequence by -1,
\* or on the last by +1, returns false and changes nothing: every subtask's
\* order, the task's updated_at and the document stay as they were.
C6_MoveSubtaskAtBoundaryIsNoOp ==
    [][\A task_id \in TaskArgs, subtask_id \in IdArgs, d \in Directions :
        (/\ last'.op = "move_subtask"
         /\ move_subtask(task_id, subtask_id, d)
         /\ HasSubTask(tasks, task_id, subtask_id)) =>
            LET before == TaskOf(tasks, task_id).subtasks
                i == PositionOf(OrderedIds(before), subtask_id)
            IN (i + d < 1 \/ i + d > Len(before)) =>
                /\ last'.result.kind = "False"
                /\ tasks' = tasks
                /\ disk' = disk]_vars

C6_LastSubtaskMovedDown ==
    /\ Called("move_subtask", "False")
    /\ last.args[3] = 1
    /\ HasSubTask(tasks, last.args[1], last.args[2])
    /\ LET task == TaskOf(tasks, last.args[1]) IN
       /\ Len(task.subtasks) >= 2
       /\ PositionOf(OrderedIds(task.subtasks), last.args[2]) = Len(task.subtasks)
       /\ now > task.updated_at
    /\ disk.last_updated # isoformat(now)

\* C7: delete_subtask on a subtask of a task whose order values are 0..N-1
\* (as move_subtask leaves them) returns true, removes the subtask, and
\* leaves the others with order values exactly 0..N-2 and, read in
\* ascending order, in the sequence they had before the call.
C7_DeleteSubtaskKeepsSequence ==
    [][\A task_id \in TaskArgs, subtask_id \in IdArgs :
        (/\ last'.op = "delete_subtask"
         /\ delete_subtask(task_id, subtask_id)
         /\ HasSubTask(tasks, task_id, subtask_id)
         /\ Normalized(TaskOf(tasks, task_id).subtasks)) =>
            LET before == TaskOf(tasks, task_id).subtasks
                after == TaskOf(tasks', task_id).subtasks
                Others(x) == x # subtask_id
            IN /\ last'.result.kind = "True"
               /\ Len(after) = Len(before) - 1
               /\ Normalized(after)
               /\ OrderedIds(after) = SelectSeq(OrderedIds(before), Others)]_vars

\* C8: move_task by d on the task at list index i with i+d inside the list
\* returns true, exchanges list positions i and i+d, leaves every other
\* position as it was, and leaves every task's order equal to its index;
\* with an unknown id or i+d outside the list it returns false and the
\* list, every order and the document stay as they were.
C8_MoveTaskSwapsAndRenumbers ==
    [][\A task_id \in TaskArgs, d \in Directions :
        (last'.op = "move_task" /\ move_task(task_id, d)) =>
            LET i == IndexOfId(tasks, task_id)
                WithoutOrder(task) == [task EXCEPT !.order = 0]
            IN IF i # 0 /\ 1 <= i + d /\ i + d <= Len(tasks)
               THEN /\ last'.result.kind = "True"
                    /\ DOMAIN tasks' = DOMAIN tasks
                    /\ \A r \in DOMAIN tasks :
                        /\ WithoutOrder(tasks'[r]) = WithoutOrder(Swap(tasks, i, i + d)[r])
                        /\ tasks'[r].order = r - 1
               ELSE /\ last'.result.kind = "False"
                    /\ tasks' = tasks
                    /\ disk' = disk]_vars

C8_FirstTaskMovedDown ==
    /\ Called("move_task", "True")
    /\ last.args = <<1, 1>>
    /\ [r \in DOMAIN tasks |-> tasks[r].id] = <<2, 1, 3>>
    /\ [r \in DOMAIN tasks |-> tasks[r].order] = <<0, 1, 2>>

\* C9: after every call that changed the task list in memory, the document
\* holds that task list: loading it gives the task list in memory.
C9_ChangedMemoryIsSaved ==
    [][tasks' # tasks =>
        /\ disk'.exists
        /\ disk'.tasks = [i \in DOMAIN tasks' |-> _task_to_dict(tasks'[i])]
        /\ _load(disk') = tasks']_vars

C9_MergedIntoNewTaskAndSaved ==
    /\ Called("merge_tasks_exploration_notes", "id")
    /\ Len(tasks) = 3
    /\ tasks[3].id = last.result.id
    /\ Len(tasks[3].exploration_notes) >= 2
    /\ now > 1
    /\ disk.last_updated = isoformat(now)
    /\ _load(disk) = tasks

SubTaskOps == {"update_subtask", "delete_subtask", "move_subtask", "complete_subtask"}

NoteOps ==
    {"update_exploration_note", "delete_exploration_note", "move_exploration_note_order"}

TaskOps ==
    {"update_task", "delete_task", "add_subtask", "add_exploration_note",
     "switch_task_mode", "set_task_conclusion", "clear_task_conclusion"}

\* the call op(args) names a task, a subtask or a note that ts does not hold
UnknownId(ts, op, args) ==
    /\ op \in TaskOps \cup SubTaskOps \cup NoteOps
    /\ \/ args[1] \notin TaskIds(ts)
       \/ /\ op \in SubTaskOps
          /\ args[2] \notin IdsOf(TaskOf(ts, args[1]).subtasks)
       \/ /\ op \in NoteOps
          /\ args[2] \notin IdsOf(TaskOf(ts, args[1]).exploration_notes)

\* C10: a call of update_task, delete_task, add_subtask, update_subtask,
\* delete_subtask, move_subtask, complete_subtask, add/update/delete_
\* exploration_note, move_exploration_note_order, switch_task_mode or
\* set/clear_task_conclusion with an unknown task, subtask or note id returns
\* None or false, leaves the task list in memory as it was and does not
\* write the document; complete_subtask writes it only when it returns true.
C10_UnknownIdIsRejected ==
    [][/\ UnknownId(tasks, last'.op, last'.args) =>
            /\ last'.result.kind \in {"None", "False"}
            /\ tasks' = tasks
            /\ disk' = disk
       /\ (last'.op = "complete_subtask" /\ disk' # disk) =>
            last'.result.kind = "True"]_vars

C10_UnknownSubtaskNotCompleted ==
    /\ Called("complete_subtask", "False")
    /\ last.args[1] \in TaskIds(tasks)
    /\ last.args[2] \notin IdsOf(TaskOf(tasks, last.args[1]).subtasks)
    /\ TaskOf(tasks, last.args[1]).subtasks # <<>>
    /\ now > 1
    /\ disk.last_updated # isoformat(now)

(***************************************************************************)
(* Save and load.  The task list in memory is one the operations built     *)
(* and the last of them saved at instant 1; one more call may follow, and  *)
(* then the program is started again over the document.                    *)
(***************************************************************************)
Saved(ts) ==
    /\ tasks = ts
    /\ disk = _save(ts, 1)
    /\ now \in 1..MaxNow
    /\ last = [op |-> "__init__", args |-> <<>>, result |-> [kind |-> "None", id |-> 0]]

Tags == {<<>>, <<"ml", "todo">>}

TagPatches == {[tags |-> g] : g \in Tags}

RoundTripStores ==
    {[ts EXCEPT ![1].tags = g, ![1].conclusion = c] :
        ts \in StatusStores \cup MixedStores, g \in Tags, c \in {""} \cup Conclusions}

InitRoundTrip == \E ts \in RoundTripStores : Saved(ts)

NextRoundTrip ==
    \/ \E id \in LiveTasks, patch \in TagPatches : Fresh /\ update_task(id, patch)
    \/ \E id \in LiveTasks, sid \in LiveSubTasks : Fresh /\ complete_subtask(id, sid)
    \/ \E id \in LiveTasks, b \in BOOLEAN : Fresh /\ add_exploration_note(id, b)
    \/ last.op # "_load" /\ __init__

SpecRoundTrip == InitRoundTrip /\ [][NextRoundTrip]_vars

\* C11: when the document is the save of the task list in memory, loading it
\* raises nothing and gives a task list of the same length and order whose
\* tasks, subtasks and notes equal the saved ones in every field.
C11_SaveThenLoadIsIdentity ==
    [][(/\ last'.op = "_load"
        /\ __init__
        /\ disk.tasks = _save(tasks, now).tasks) =>
            /\ last'.result.kind = "None"
            /\ Len(tasks') = Len(tasks)
            /\ \A i \in DOMAIN tasks : tasks'[i] = tasks[i]]_vars

\* loaded again after a call saved it: a task with tags, a conclusion, two
\* or more subtasks of which one is completed and one is not
C11_RichTaskLoadedAgain ==
    /\ Called("_load", "None")
    /\ now > 1
    /\ disk.last_updated = isoformat(now)
    /\ \E i \in DOMAIN tasks :
        /\ tasks[i].tags # <<>>
        /\ tasks[i].conclusion # ""
        /\ tasks[i].completed_at = None
        /\ \E j, k \in DOMAIN tasks[i].subtasks :
            /\ tasks[i].subtasks[j].completed_at = now
            /\ tasks[i].subtasks[k].completed_at = None

(***************************************************************************)
(* Loading a document this version did not write: none, one that is not    *)
(* JSON, one an older version wrote (exploration_history, keys that were   *)
(* added later missing), one that was edited or damaged.  The program      *)
(* starts, may set a conclusion, and is started again.                     *)
(***************************************************************************)
Without(rec, key) == [k \in DOMAIN rec \ {key} |-> rec[k]]

With(rec, key, value) ==
    [k \in DOMAIN rec \cup {key} |-> IF k = key THEN value ELSE rec[k]]

Doc(ds) == [exists |-> TRUE, tasks |-> ds, last_updated |-> isoformat(1)]

\* a task with one completed subtask and m notes, as _save writes it
StoredTask(id, m) ==
    _task_to_dict([Task(id, id - 1, TaskStatus_PENDING, TaskMode_PLANNING,
                        KNOWN_WHAT_KNOWN_HOW, 1) EXCEPT
        !.subtasks = MkSubTasks(1, 10 * id, <<0>>, <<TaskStatus_COMPLETED>>),
        !.exploration_notes = MkNotes(m, 10 * id + 1)])

\* h entries of exploration_history created at the instants created[1..h]
History(h, first_id, created, with_updated_at) ==
    [k \in 1..h |->
        IF with_updated_at
        THEN [id |-> first_id + k - 1, content |-> "tried", insight |-> "learned",
              created_at |-> isoformat(created[k]),
              updated_at |-> isoformat(MaxNow), is_breakthrough |-> TRUE]
        ELSE [id |-> first_id + k - 1, content |-> "tried",
              created_at |-> isoformat(created[k])]]

LegacyDocuments ==
    UNION {UNION {
        {Doc(<<With(IF m = 0 /\ u THEN Without(StoredTask(1, m), "exploration_notes")
                    ELSE StoredTask(1, m),
                    "exploration_history", History(h, 20, created, u))>>) :
            created \in [1..h -> 1..MaxNow], u \in BOOLEAN} :
        h \in 0..MaxNotes} : m \in 0..MaxNotes}

\* keys _dict_to_task reads with a default
OptionalKeys ==
    {"order", "subtasks", "exploration_notes", "completed_at", "tags", "conclusion"}

SparseDocuments ==
    {Doc(<<>>), [exists |-> TRUE, last_updated |-> isoformat(1)]}
    \cup {Doc(<<Without(StoredTask(1, 1), k), Without(StoredTask(2, 1), k)>>) :
            k \in OptionalKeys}

RequiredKeys == {"id", "status", "mode", "knowledge", "updated_at"}

\* one defect in the task, in its subtask or in its note
DefectiveTasks ==
    LET d == StoredTask(1, 1) IN
    {Without(d, k) : k \in RequiredKeys}
    \cup {[d EXCEPT ![k] = "DONE"] : k \in {"status", "mode", "knowledge"}}
    \cup {[d EXCEPT ![k] = <<"yesterday">>] : k \in {"updated_at", "completed_at"}}
    \cup {[d EXCEPT !.subtasks = <<Without(@[1], k)>>] : k \in {"id", "status"}}
    \cup {[d EXCEPT !.subtasks[1].status = "DONE"],
          [d EXCEPT !.subtasks[1].completed_at = <<"yesterday">>]}
    \cup {[d EXCEPT !.exploration_notes = <<Without(@[1], k)>>] :
            k \in {"id", "content", "created_at"}}
    \cup {[d EXCEPT !.exploration_notes[1].created_at = <<"yesterday">>],
          [d EXCEPT !.exploration_notes[1].updated_at = <<"yesterday">>]}

DefectiveDocuments ==
    {Doc(<<d>>) : d \in DefectiveTasks}
    \cup {Doc(<<StoredTask(2, 1), d>>) : d \in DefectiveTasks}

Documents ==
    {NoFile, NotJson} \cup LegacyDocuments \cup SparseDocuments \cup DefectiveDocuments

InitLoad ==
    /\ disk \in Documents
    /\ tasks = <<>>
    /\ now \in 1..MaxNow
    /\ last = [op |-> "start", args |-> <<>>, result |-> [kind |-> "None", id |-> 0]]

NextLoad ==
    \/ last.op = "start" /\ __init__
    \/ \E id \in LiveTasks, c \in Conclusions :
            /\ last.op = "_load"
            /\ tasks[IndexOfId(tasks, id)].conclusion # c
            /\ set_task_conclusion(id, c)
    \/ last.op = "set_task_conclusion" /\ __init__

SpecLoad == InitLoad /\ [][NextLoad]_vars

\* C12: a load that raises nothing gives each task its stored notes followed
\* by the entries of its exploration_history, in their order, each with its
\* id and created_at and with updated_at equal to created_at when it has
\* none; after a save the document has no exploration_history and loading
\* it gives the same notes lists.
C12_LegacyHistoryIsMigrated ==
    [][(last'.op = "_load" /\ __init__ /\ last'.result.kind = "None") =>
        /\ \A i \in DOMAIN tasks' :
            LET data == disk.tasks[i]
                stored == Get(data, "exploration_notes", <<>>)
                history == Get(data, "exploration_history", <<>>)
                notes == tasks'[i].exploration_notes
            IN /\ Len(notes) = Len(stored) + Len(history)
               /\ \A k \in DOMAIN stored : notes[k].id = stored[k].id
               /\ \A k \in DOMAIN history :
                    LET note == notes[Len(stored) + k]
                        created == fromisoformat(history[k].created_at)
                    IN /\ note.id = history[k].id
                       /\ note.created_at = created
                       /\ note.updated_at =
                            IF "updated_at" \in DOMAIN history[k]
                            THEN fromisoformat(history[k].updated_at)
                            ELSE created
        /\ last.op = "set_task_conclusion" =>
            \A i \in DOMAIN tasks :
                /\ "exploration_history" \notin DOMAIN disk.tasks[i]
                /\ tasks'[i].exploration_notes = tasks[i].exploration_notes]_vars

\* two stored notes and two migrated ones created out of order, the second
\* load after set_task_conclusion saved them
C12_MigratedNotesLoadedAgain ==
    /\ Called("_load", "None")
    /\ tasks # <<>>
    /\ tasks[1].conclusion \in Conclusions
    /\ "exploration_history" \notin DOMAIN disk.tasks[1]
    /\ LET notes == tasks[1].exploration_notes IN
       /\ Len(notes) = 4
       /\ notes[3].id = 20 /\ notes[4].id = 21
       /\ notes[3].created_at > notes[4].created_at
       /\ notes[3].updated_at = notes[3].created_at

\* documents the claim calls malformed or unreadable, and the missing file
MalformedDocuments == {NoFile, NotJson} \cup DefectiveDocuments

\* C13: the first load of a missing file, of a file that is not JSON and of
\* a document with a task lacking a required key, holding an unknown
\* status, mode or knowledge name or an unparsable timestamp raises nothing
\* and ends with an empty task list.
C13_LoadFailsSoft ==
    [][(last.op = "start" /\ last'.op = "_load" /\ __init__
        /\ disk \in MalformedDocuments) =>
            /\ last'.result.kind = "None"
            /\ tasks' = <<>>]_vars

(***************************************************************************)
(* A call whose _save raises.  The task list is already changed when _save *)
(* starts.  _save fails before the file is touched (_task_to_dict or       *)
(* open() raises) and the document is as it was, or it fails while         *)
(* json.dump writes (disk full, a value json cannot write): open(.., 'w')  *)
(* has emptied the file by then and what it holds is a piece of a          *)
(* document, which json.load does not parse.                               *)
(***************************************************************************)
SaveFails(op, args, r) ==
    /\ r.save
    /\ tasks' = r.tasks
    /\ disk' \in {disk, NotJson}
    /\ last' = [op |-> op, args |-> args, result |-> [kind |-> "raise", id |-> 0]]
    /\ UNCHANGED now

SaveFailed == last.result.kind = "raise" /\ last.op # "_load"

NextSaveFails ==
    \/ \E a \in CreateArgs :
            Fresh /\ SaveFails("create_task", a,
                               Database_create_task(tasks, a[1], a[2], now))
    \/ \E id \in TaskArgs, patch \in TaskPatches \cup TagPatches :
            Fresh /\ SaveFails("update_task", <<id, patch>>,
                               Database_update_task(tasks, id, patch, now))
    \/ \E id \in TaskArgs :
            Fresh /\ SaveFails("delete_task", <<id>>, Database_delete_task(tasks, id, now))
    \/ \E id \in TaskArgs :
            Fresh /\ SaveFails("add_subtask", <<id>>, Database_add_subtask(tasks, id, now))
    \/ \E id \in TaskArgs, sid \in SubTaskArgs :
            Fresh /\ SaveFails("complete_subtask", <<id, sid>>,
                               Database_complete_subtask(tasks, id, sid, now))
    \/ \E id \in TaskArgs, b \in BOOLEAN :
            Fresh /\ SaveFails("add_exploration_note", <<id, b>>,
                               Database_add_exploration_note(tasks, id, b, now))
    \/ \E id \in LiveTasks : SaveFailed /\ clear_task_conclusion(id)
    \/ SaveFailed /\ __init__

SpecSaveFails == InitRepo /\ [][NextSaveFails]_vars

\* C14: when the save of a call fails, the exception reaches the caller, the
\* task list in memory keeps what the call did to it (create_task: one more
\* task) and the document is as it was before the call.
C14_FailedSaveKeepsDocument ==
    [][(Fresh /\ last'.result.kind = "raise") =>
        /\ disk' = disk
        /\ last'.op = "create_task" => Len(tasks') = Len(tasks) + 1]_vars

\* C15: no note id occurs in the exploration_notes of two different tasks.
C15_NoteOwnedByOneTask ==
    \A i, j \in DOMAIN tasks :
        i # j => IdsOf(tasks[i].exploration_notes) \cap IdsOf(tasks[j].exploration_notes) = {}

(***************************************************************************)
(* Merging.  Three exploring tasks, the first two with up to MaxNotes      *)
(* notes each and the third with at most one, created at any instants up   *)
(* to MaxNow, in a document saved at MaxNow.  One merge is called; after a *)
(* merge into an existing target time may pass and the same merge may be   *)
(* called again.                                                           *)
(***************************************************************************)
MkNotesAt(m, first_id, created, offset) ==
    [j \in 1..m |-> ExplorationNote(first_id + j - 1, FALSE, created[offset + j])]

NoteStores ==
    UNION {UNION {UNION {
        {[i \in 1..3 |->
            [Task(i, i - 1, TaskStatus_EXPLORING, TaskMode_EXPLORING,
                  KNOWN_WHAT_UNKNOWN_HOW, MaxNow) EXCEPT
                !.exploration_notes =
                    IF i = 1 THEN MkNotesAt(m1, 4, created, 0)
                    ELSE IF i = 2 THEN MkNotesAt(m2, 4 + m1, created, m1)
                    ELSE MkNotesAt(m3, 4 + m1 + m2, created, m1 + m2)]] :
            created \in [1..(m1 + m2 + m3) -> 1..MaxNow]} :
        m3 \in 0..1} : m2 \in 0..MaxNotes} : m1 \in 0..MaxNotes}

InitNotes ==
    \E ts \in NoteStores :
        /\ disk = _save(ts, MaxNow)
        /\ tasks = _load(disk)
        /\ now = MaxNow
        /\ last = [op |-> "__init__", args |-> <<>>, result |-> [kind |-> "None", id |-> 0]]

\* datetime.now() returns a later instant
Tick ==
    /\ now' = now + 1
    /\ UNCHANGED <<tasks, disk, last>>

\* the last call was a merge that succeeded
Merged ==
    /\ last.op = "merge_tasks_exploration_notes"
    /\ last.result.kind \in {"True", "id"}

\* the task the last merge put the notes into
MergedInto == IF last.args[3] THEN last.result.id ELSE last.args[2]

NextNotes ==
    \/ \E a \in TaskArgs, b \in TaskArgs, g \in TaskArgs, new_task \in BOOLEAN :
            Fresh /\ merge_tasks_exploration_notes(<<a, b>>, g, new_task)
    \/ \E a \in TaskArgs, g \in TaskArgs, new_task \in BOOLEAN :
            Fresh /\ merge_tasks_exploration_notes(<<a>>, g, new_task)
    \/ Merged /\ now = MaxNow /\ Tick
    \/ Merged /\ merge_tasks_exploration_notes(last.args[1], MergedInto, FALSE)

SpecNotes == InitNotes /\ [][NextNotes]_vars

NoteSeqIds(notes) == [j \in DOMAIN notes |-> notes[j].id]

\* C16: a merge of known sources with a new task title appends one task, in
\* EXPLORING mode, and returns its id; every note of every source is among
\* its notes, and its notes are in non-decreasing order of created_at.
C16_MergeIntoNewTaskSortsByCreation ==
    [][(/\ Fresh
        /\ last'.op = "merge_tasks_exploration_notes"
        /\ last'.args[3]
        /\ last'.args[1] # <<>>
        /\ \A n \in DOMAIN last'.args[1] : last'.args[1][n] \in TaskIds(tasks)) =>
            LET source_task_ids == last'.args[1]
                target == tasks'[Len(tasks')]
                notes == target.exploration_notes
            IN /\ Len(tasks') = Len(tasks) + 1
               /\ target.id \notin TaskIds(tasks)
               /\ last'.result = [kind |-> "id", id |-> target.id]
               /\ target.mode = TaskMode_EXPLORING
               /\ \A n \in DOMAIN source_task_ids :
                    LET source == TaskOf(tasks, source_task_ids[n]).exploration_notes
                    IN \A k \in DOMAIN source : \E j \in DOMAIN notes : notes[j] = source[k]
               /\ \A j, k \in DOMAIN notes :
                    j < k => notes[j].created_at <= notes[k].created_at]_vars

\* two sources given against their list order, the first with its notes
\* out of order, merged into a new task with three or more notes
C16_OutOfOrderSourcesMerged ==
    /\ Called("merge_tasks_exploration_notes", "id")
    /\ last.args[1] = <<2, 1>>
    /\ LET source == TaskOf(tasks, 2).exploration_notes
           notes == TaskOf(tasks, last.result.id).exploration_notes
       IN /\ Len(source) >= 2
          /\ source[1].created_at > source[2].created_at
          /\ TaskOf(tasks, 1).exploration_notes # <<>>
          /\ Len(notes) >= 3
          /\ notes[1].created_at < notes[Len(notes)].created_at

\* C17: after a merge of sources S into a target T succeeded (T given or
\* created by it), a merge of the same S into the existing T returns True
\* and leaves the ids of T's notes and their order as they were.
C17_MergeAgainChangesNoNotes ==
    [][(/\ Merged
        /\ last'.op = "merge_tasks_exploration_notes"
        /\ last'.args = <<last.args[1], MergedInto, FALSE>>
        /\ now' = now) =>
            /\ last'.result.kind = "True"
            /\ NoteSeqIds(TaskOf(tasks', MergedInto).exploration_notes)
                = NoteSeqIds(TaskOf(tasks, MergedInto).exploration_notes)]_vars

\* the second merge, made at a later instant than the first
C17_MergedAgainLater ==
    /\ Merged
    /\ now > MaxNow
    /\ Len(last.args[1]) = 2
    /\ ~last.args[3]
    /\ LET target == TaskOf(tasks, MergedInto) IN
       /\ target.updated_at = now
       /\ Len(target.exploration_notes) >= 3
    /\ disk.last_updated = isoformat(now)

PairwiseDistinctIds(notes) ==
    \A j, k \in DOMAIN notes : j # k => notes[j].id # notes[k].id

\* C18: a merge into an existing target whose note ids are pairwise distinct
\* leaves them pairwise distinct, whatever the list of source ids.
C18_MergeKeepsNoteIdsDistinct ==
    [][(/\ last'.op = "merge_tasks_exploration_notes"
        /\ ~last'.args[3]
        /\ last'.args[2] \in TaskIds(tasks)
        /\ PairwiseDistinctIds(TaskOf(tasks, last'.args[2]).exploration_notes)) =>
            PairwiseDistinctIds(TaskOf(tasks', last'.args[2]).exploration_notes)]_vars

\* C19: merge returns False and changes neither the task list nor the
\* document when the source list is empty, a source id is unknown, or there
\* is no new task title and the target id is unknown; otherwise it returns
\* the id of the task it created when there is a new task title, else True.
C19_MergeFailsWithoutEffect ==
    [][(Fresh /\ last'.op = "merge_tasks_exploration_notes") =>
        LET source_task_ids == last'.args[1]
            target_task_id == last'.args[2]
            new_task == last'.args[3]
        IN IF \/ source_task_ids = <<>>
              \/ \E n \in DOMAIN source_task_ids : source_task_ids[n] \notin TaskIds(tasks)
              \/ ~new_task /\ target_task_id \notin TaskIds(tasks)
           THEN /\ last'.result.kind = "False"
                /\ tasks' = tasks
                /\ disk' = disk
           ELSE IF new_task
           THEN /\ Len(tasks') = Len(tasks) + 1
                /\ tasks'[Len(tasks')].id \notin TaskIds(tasks)
                /\ last'.result = [kind |-> "id", id |-> tasks'[Len(tasks')].id]
           ELSE /\ last'.result.kind = "True"
                /\ Len(tasks') = Len(tasks)]_vars

\* a merge into a new task, of a task with notes and an unknown task, was
\* refused: two tasks as loaded, the document not written at this instant
C19_MergeWithUnknownSourceRefused ==
    /\ Called("merge_tasks_exploration_notes", "False")
    /\ last.args[3]
    /\ Len(last.args[1]) = 2
    /\ last.args[1][1] \in TaskIds(tasks)
    /\ TaskOf(tasks, last.args[1][1]).exploration_notes # <<>>
    /\ last.args[1][2] \notin TaskIds(tasks)
    /\ Len(tasks) = 2
    /\ tasks = _load(disk)
    /\ now > 1
    /\ disk.last_updated # isoformat(now)

NoteCount(ts) == Len(Concat([i \in DOMAIN ts |-> ts[i].exploration_notes]))

\* s without its k-th element
Dropped(s, k) == [j \in 1..(Len(s) - 1) |-> IF j < k THEN s[j] ELSE s[j + 1]]

\* C20: move_exploration_note of a note the known source task holds to a
\* known target task returns True, takes the note out of the source, makes
\* it, unchanged, the last note of the target, keeps the other notes of both
\* tasks in their order and the number of notes over all tasks (also when
\* source and target are one task); in every other case it returns False
\* and changes neither the task list nor the document.
C20_MoveNoteAppendsToTarget ==
    [][(Fresh /\ last'.op = "move_exploration_note") =>
        LET source_task_id == last'.args[1]
            target_task_id == last'.args[2]
            note_id == last'.args[3]
        IN IF /\ source_task_id \in TaskIds(tasks)
              /\ target_task_id \in TaskIds(tasks)
              /\ note_id \in IdsOf(TaskOf(tasks, source_task_id).exploration_notes)
           THEN LET source == TaskOf(tasks, source_task_id).exploration_notes
                    target == TaskOf(tasks, target_task_id).exploration_notes
                    source_after == TaskOf(tasks', source_task_id).exploration_notes
                    target_after == TaskOf(tasks', target_task_id).exploration_notes
                    k == CHOOSE j \in DOMAIN source :
                            /\ source[j].id = note_id
                            /\ \A h \in 1..(j - 1) : source[h].id # note_id
                IN /\ last'.result.kind = "True"
                   /\ target_after # <<>>
                   /\ target_after[Len(target_after)] = source[k]
                   /\ IF source_task_id = target_task_id
                      THEN SubSeq(target_after, 1, Len(target_after) - 1) = Dropped(source, k)
                      ELSE /\ source_after = Dropped(source, k)
                           /\ note_id \notin IdsOf(source_after)
                           /\ SubSeq(target_after, 1, Len(target_after) - 1) = target
                   /\ NoteCount(tasks') = NoteCount(tasks)
           ELSE /\ last'.result.kind = "False"
                /\ tasks' = tasks
                /\ disk' = disk]_vars

\* the first of two notes was moved to another task that held a note
C20_NoteMovedToOtherTask ==
    /\ Called("move_exploration_note", "True")
    /\ last.args[1] # last.args[2]
    /\ LET source == TaskOf(tasks, last.args[1]).exploration_notes
           target == TaskOf(tasks, last.args[2]).exploration_notes
       IN /\ Len(source) = 1
          /\ source[1].id > last.args[3]
          /\ Len(target) = 2
          /\ target[2].id = last.args[3]
    /\ now > 1
    /\ disk.last_updated = isoformat(now)

(***************************************************************************)
(* Notes between tasks.  Two tasks of a loaded document, the first with up *)
(* to MaxNotes + 1 notes and the second with at most one, each note with   *)
(* one of three payloads; one copy or one batch move is called.            *)
(***************************************************************************)
\* content, insight, is_breakthrough
Payloads == {<<"", "", FALSE>>, <<"tried", "", TRUE>>, <<"tried", "learned", FALSE>>}

MkNotesWith(m, first_id, payload, offset) ==
    [j \in 1..m |->
        [ExplorationNote(first_id + j - 1, payload[offset + j][3], 1) EXCEPT
            !.content = payload[offset + j][1],
            !.insight = payload[offset + j][2]]]

TransferStores ==
    UNION {UNION {
        {<<[Task(1, 0, TaskStatus_EXPLORING, TaskMode_EXPLORING, KNOWN_WHAT_UNKNOWN_HOW, 1)
                EXCEPT !.exploration_notes = MkNotesWith(m1, 3, payload, 0)],
           [Task(2, 1, TaskStatus_PENDING, TaskMode_PLANNING, KNOWN_WHAT_KNOWN_HOW, 1)
                EXCEPT !.exploration_notes = MkNotesWith(m2, 3 + m1, payload, m1)]>> :
            payload \in [1..(m1 + m2) -> Payloads]} :
        m2 \in 0..1} : m1 \in 0..(MaxNotes + 1)}

InitTransfer == \E ts \in TransferStores : Loaded(ts)

NextTransfer ==
    \/ \E s \in TaskArgs, g \in TaskArgs, nid \in NoteArgs :
            Fresh /\ copy_exploration_note(s, g, nid)
    \/ \E s \in TaskArgs, g \in TaskArgs, nids \in SUBSET NoteArgs :
            Fresh /\ batch_move_exploration_notes(s, g, nids)

SpecTransfer == InitTransfer /\ [][NextTransfer]_vars

\* the copy is refused: an unknown task, or no note with the id in the source
CopyRefused(source_task_id, target_task_id, note_id) ==
    \/ source_task_id \notin TaskIds(tasks)
    \/ target_task_id \notin TaskIds(tasks)
    \/ note_id \notin IdsOf(TaskOf(tasks, source_task_id).exploration_notes)

\* the last note of the target after the call is new and carries the source
\* note's content, insight and is_breakthrough
CopyAppended(source_task_id, target_task_id, note_id) ==
    LET source == TaskOf(tasks, source_task_id).exploration_notes
        source_note == source[CHOOSE j \in DOMAIN source : source[j].id = note_id]
        target_after == TaskOf(tasks', target_task_id).exploration_notes
        new_note == target_after[Len(target_after)]
    IN /\ target_after # <<>>
       /\ last'.result = [kind |-> "ExplorationNote", id |-> new_note.id]
       /\ new_note.id \notin NoteIds(tasks)
       /\ new_note.content = source_note.content
       /\ new_note.insight = source_note.insight
       /\ new_note.is_breakthrough = source_note.is_breakthrough

\* C21: copy_exploration_note of a note the known source holds to a known
\* target returns a new note, the last of the target, with an id no note
\* had and the content, insight and is_breakthrough of the source note, and
\* leaves the notes list of the source task as it was; in every other case
\* it returns None and changes neither the task list nor the document.
C21_CopyLeavesSourceNotesUnchanged ==
    [][(Fresh /\ last'.op = "copy_exploration_note") =>
        LET source_task_id == last'.args[1]
            target_task_id == last'.args[2]
            note_id == last'.args[3]
        IN IF CopyRefused(source_task_id, target_task_id, note_id)
           THEN /\ last'.result.kind = "None"
                /\ tasks' = tasks
                /\ disk' = disk
           ELSE /\ CopyAppended(source_task_id, target_task_id, note_id)
                /\ TaskOf(tasks', source_task_id).exploration_notes
                    = TaskOf(tasks, source_task_id).exploration_notes]_vars

\* C21, amended: as above, but the notes the target had are followed by the
\* new note, and the notes list of the source task is as it was when the
\* target is another task; when the target is the source task itself, its
\* list is the one it had with the new note appended.
C21_CopyAppendsNewNoteToTarget ==
    [][(Fresh /\ last'.op = "copy_exploration_note") =>
        LET source_task_id == last'.args[1]
            target_task_id == last'.args[2]
            note_id == last'.args[3]
        IN IF CopyRefused(source_task_id, target_task_id, note_id)
           THEN /\ last'.result.kind = "None"
                /\ tasks' = tasks
                /\ disk' = disk
           ELSE LET target == TaskOf(tasks, target_task_id).exploration_notes
                    target_after == TaskOf(tasks', target_task_id).exploration_notes
                IN /\ CopyAppended(source_task_id, target_task_id, note_id)
                   /\ SubSeq(target_after, 1, Len(target_after) - 1) = target
                   /\ source_task_id # target_task_id =>
                        TaskOf(tasks', source_task_id) = TaskOf(tasks, source_task_id)]_vars

\* a note with content and insight was copied to another task that held a
\* note, at an instant later than its creation
C21_NoteCopiedToOtherTask ==
    /\ Called("copy_exploration_note", "ExplorationNote")
    /\ last.args[1] # last.args[2]
    /\ LET source == TaskOf(tasks, last.args[1]).exploration_notes
           target == TaskOf(tasks, last.args[2]).exploration_notes
       IN /\ Len(target) = 2
          /\ target[2].id = last.result.id
          /\ target[2].insight = "learned"
          /\ target[2].created_at = now
          /\ \E j \in DOMAIN source :
                /\ source[j].id = last.args[3]
                /\ source[j].insight = "learned"
                /\ source[j].created_at < now

\* C22: batch_move_exploration_notes with known tasks and a set of ids of
\* which one at least is the id of a source note returns True; the source
\* keeps the notes whose id is not in the set, in their order, the target's
\* notes are followed by the notes whose id is in the set, in their source
\* order, and the number of notes over all tasks is as before; in every
\* other case it returns False and changes neither the task list nor the
\* document.
C22_BatchMoveAppendsChosenNotes ==
    [][(Fresh /\ last'.op = "batch_move_exploration_notes") =>
        LET source_task_id == last'.args[1]
            target_task_id == last'.args[2]
            note_ids == last'.args[3]
            Chosen(note) == note.id \in note_ids
            Other(note) == note.id \notin note_ids
        IN IF /\ source_task_id \in TaskIds(tasks)
              /\ target_task_id \in TaskIds(tasks)
              /\ note_ids \cap IdsOf(TaskOf(tasks, source_task_id).exploration_notes) # {}
           THEN LET source == TaskOf(tasks, source_task_id).exploration_notes
                    target == TaskOf(tasks, target_task_id).exploration_notes
                    source_after == TaskOf(tasks', source_task_id).exploration_notes
                    target_after == TaskOf(tasks', target_task_id).exploration_notes
                IN /\ last'.result.kind = "True"
                   /\ IF source_task_id = target_task_id
                      THEN target_after = SelectSeq(source, Other) \o SelectSeq(source, Chosen)
                      ELSE /\ source_after = SelectSeq(source, Other)
                           /\ target_after = target \o SelectSeq(source, Chosen)
                   /\ NoteCount(tasks') = NoteCount(tasks)
           ELSE /\ last'.result.kind = "False"
                /\ tasks' = tasks
                /\ disk' = disk]_vars

\* the first and the third of three notes were moved, with an id no note
\* has, to the other task, which held one note
C22_TwoOfThreeNotesMoved ==
    /\ Called("batch_move_exploration_notes", "True")
    /\ last.args = <<1, 2, {0, 3, 5}>>
    /\ NoteSeqIds(TaskOf(tasks, 1).exploration_notes) = <<4>>
    /\ NoteSeqIds(TaskOf(tasks, 2).exploration_notes) = <<6, 3, 5>>
    /\ now > 1
    /\ disk.last_updated = isoformat(now)

(***************************************************************************)
(* Mode switches.  A loaded document of a planning task with subtasks and  *)
(* notes and an exploring task with notes, with or without a conclusion;   *)
(* the mode is switched, or a conclusion is set and the mode switched      *)
(* after it, as the found-solution dialog does.                            *)
(***************************************************************************)
ModeStores ==
    {[i \in DOMAIN ts |-> [ts[i] EXCEPT !.conclusion = c]] :
        ts \in MixedStores, c \in {"", "earlier"}}

InitMode == \E ts \in ModeStores : Loaded(ts)

\* the last call set the conclusion of a task
ConclusionSet ==
    /\ last.op = "set_task_conclusion"
    /\ last.result.kind = "Task"

NextMode ==
    \/ \E id \in TaskArgs, b \in BOOLEAN : Fresh /\ switch_task_mode(id, b)
    \/ \E id \in TaskArgs, c \in Conclusions : Fresh /\ set_task_conclusion(id, c)
    \/ \E b \in BOOLEAN : ConclusionSet /\ switch_task_mode(last.args[1], b)

SpecMode == InitMode /\ [][NextMode]_vars

\* C23: switch_task_mode of a known task, in either direction, leaves its
\* subtasks, its exploration_notes and its conclusion as they were; called
\* with to_exploring = False on an EXPLORING task right after
\* set_task_conclusion(id, c), it leaves the task in mode PLANNING, status
\* IN_PROGRESS, knowledge KNOWN_WHAT_KNOWN_HOW, with conclusion c.
C23_SwitchModeKeepsNotesAndConclusion ==
    [][(last'.op = "switch_task_mode" /\ last'.args[1] \in TaskIds(tasks)) =>
        LET task == TaskOf(tasks, last'.args[1])
            after == TaskOf(tasks', last'.args[1])
        IN /\ after.subtasks = task.subtasks
           /\ after.exploration_notes = task.exploration_notes
           /\ after.conclusion = task.conclusion
           /\ (/\ ConclusionSet
               /\ last.args[1] = task.id
               /\ task.mode = TaskMode_EXPLORING
               /\ ~last'.args[2]) =>
                    /\ after.mode = TaskMode_PLANNING
                    /\ after.status = TaskStatus_IN_PROGRESS
                    /\ after.knowledge = KNOWN_WHAT_KNOWN_HOW
                    /\ after.conclusion = last.args[2]]_vars

\* the exploring task, with two notes and an earlier conclusion, got the
\* conclusion "found" and was switched to planning
C23_SolutionFoundAndSwitched ==
    /\ Called("switch_task_mode", "Task")
    /\ last.args = <<2, FALSE>>
    /\ disk.tasks[2].conclusion = "found"
    /\ LET task == TaskOf(tasks, 2) IN
       /\ task.mode = TaskMode_PLANNING
       /\ task.status = TaskStatus_IN_PROGRESS
       /\ task.conclusion = "found"
       /\ Len(task.exploration_notes) = 2
       /\ task.updated_at = now

(***************************************************************************)
(* Task ids.  Tasks of a loaded document are created, updated with a patch *)
(* of attributes a Task has, id among them, and then moved or deleted.     *)
(***************************************************************************)
\* **kwargs of update_task that name the id: the id of a task, or a new one
IdPatches == {[id |-> k] : k \in LiveTasks \cup {uuid4(tasks)}}

\* the last call was an update_task that returned the task
Updated ==
    /\ last.op = "update_task"
    /\ last.result.kind = "Task"

NextIds ==
    \/ \E a \in CreateArgs : Fresh /\ create_task(a[1], a[2])
    \/ \E id \in TaskArgs, patch \in TaskPatches \cup IdPatches :
            Fresh /\ update_task(id, patch)
    \/ \E id \in TaskArgs, d \in Directions : Updated /\ move_task(id, d)
    \/ \E id \in TaskArgs : Updated /\ delete_task(id)

SpecIds == InitRepo /\ [][NextIds]_vars

\* C24: update_task leaves the id of every task as it was, and no two tasks
\* of the repository have the same id.
C24_TaskIdsFixedAndUnique ==
    [][/\ last'.op = "update_task" =>
            [i \in DOMAIN tasks' |-> tasks'[i].id] = [i \in DOMAIN tasks |-> tasks[i].id]
       /\ \A i, j \in DOMAIN tasks' : i # j => tasks'[i].id # tasks'[j].id]_vars

(***************************************************************************)
(* Search.  The searches read the title, the description and the tags of   *)
(* a task and the content and the insight of a note, which the tasks of    *)
(* these stores carry.  A text is looked at as its sequence of characters. *)
(***************************************************************************)
\* the characters of the texts these stores and keywords are made of
Chars(text) ==
    CASE text = "" -> <<>>
      [] text = " " -> <<" ">>
      [] text = "  " -> <<" ", " ">>
      [] text = "a" -> <<"a">>
      [] text = "A" -> <<"A">>
      [] text = " a" -> <<" ", "a">>
      [] text = "b" -> <<"b">>
      [] text = "Ab" -> <<"A", "b">>
      [] text = "b a" -> <<"b", " ", "a">>

\* str.lower()
lower(chars) ==
    [i \in DOMAIN chars |-> IF chars[i] = "A" THEN "a" ELSE chars[i]]

\* str.strip()
strip(chars) ==
    LET inner == {i \in DOMAIN chars : chars[i] # " "} IN
    IF inner = {} THEN <<>>
    ELSE SubSeq(chars, CHOOSE i \in inner : \A j \in inner : i <= j,
                       CHOOSE i \in inner : \A j \in inner : i >= j)

\* needle in text
Contains(needle, text) ==
    \E i \in 0..(Len(text) - Len(needle)) : SubSeq(text, i + 1, i + Len(needle)) = needle

Database_search_tasks(ts, keyword) ==
    LET needle == lower(Chars(keyword))
        Match(task) ==
            \/ Contains(needle, lower(Chars(task.title)))
            \/ Contains(needle, lower(Chars(task.description)))
            \/ \E i \in DOMAIN task.tags : Contains(needle, lower(Chars(task.tags[i])))
    IN SelectSeq(ts, Match)

\* needle is the keyword as the caller stripped and lowered it
_match_note_keyword(note, needle) ==
    \/ Contains(lower(needle), lower(Chars(note.content)))
    \/ Contains(lower(needle), lower(Chars(note.insight)))

ExplorationNoteSearchResult(task, note) ==
    [task_id |-> task.id, task_title |-> task.title, task_mode |-> task.mode,
     note |-> note, is_history |-> FALSE]

\* the results of one task, in the order of its notes
MatchesIn(task, needle) ==
    LET Match(note) == _match_note_keyword(note, needle)
        found == SelectSeq(task.exploration_notes, Match)
    IN [j \in DOMAIN found |-> ExplorationNoteSearchResult(task, found[j])]

\* variant: searches also with a keyword that is empty after stripping
Database_search_exploration_notes_global_any(ts, keyword) ==
    LET needle == lower(strip(Chars(keyword))) IN
    Concat([i \in DOMAIN ts |-> MatchesIn(ts[i], needle)])

Database_search_exploration_notes_global(ts, keyword) ==
    LET needle == lower(strip(Chars(keyword))) IN
    IF needle = <<>> THEN <<>>
    ELSE Concat([i \in DOMAIN ts |-> MatchesIn(ts[i], needle)])

Database_search_exploration_notes_in_task(ts, task_id, keyword) ==
    LET i == IndexOfId(ts, task_id) IN
    IF i = 0 THEN <<>>
    ELSE LET needle == lower(strip(Chars(keyword))) IN
         IF needle = <<>> THEN <<>> ELSE MatchesIn(ts[i], needle)

\* a search returns a list and changes nothing
Query(op, args, items) ==
    /\ last' = [op |-> op, args |-> args,
                result |-> [kind |-> "list", id |-> 0, items |-> items]]
    /\ UNCHANGED <<tasks, disk, now>>

search_tasks(keyword) ==
    Query("search_tasks", <<keyword>>, Database_search_tasks(tasks, keyword))

search_exploration_notes_global(keyword) ==
    Query("search_exploration_notes_global", <<keyword>>,
          Database_search_exploration_notes_global(tasks, keyword))

search_exploration_notes_in_task(task_id, keyword) ==
    Query("search_exploration_notes_in_task", <<task_id, keyword>>,
          Database_search_exploration_notes_in_task(tasks, task_id, keyword))

Keywords == {"", " ", "  ", "a", "A", " a", "b"}

Texts == {"", " ", "Ab", "b a"}

\* up to two tasks, each with a title, a description, a tag or none, and a
\* note or none
SearchTasks(id) ==
    {[title |-> title, description |-> "a", tags |-> tags] @@
     [Task(id, id - 1, TaskStatus_EXPLORING, TaskMode_EXPLORING, KNOWN_WHAT_UNKNOWN_HOW, 1)
        EXCEPT !.exploration_notes = notes] :
        title \in Texts, tags \in {<<>>, <<"Ab">>},
        notes \in {<<>>} \cup
            {<<[ExplorationNote(2 + id, FALSE, 1) EXCEPT !.content = c, !.insight = "b"]>> :
                c \in Texts}}

SearchStores ==
    {<<>>} \cup {<<a>> : a \in SearchTasks(1)}
    \cup {<<a, b>> : a \in SearchTasks(1), b \in SearchTasks(2)}

InitSearch == \E ts \in SearchStores : Saved(ts)

NextSearch ==
    \/ \E keyword \in Keywords : Fresh /\ search_tasks(keyword)
    \/ \E keyword \in Keywords : Fresh /\ search_exploration_notes_global(keyword)
    \/ \E id \in TaskArgs, keyword \in Keywords :
            Fresh /\ search_exploration_notes_in_task(id, keyword)

SpecSearch == InitSearch /\ [][NextSearch]_vars

\* the keyword is empty or made of blanks only
Blank(keyword) == \A i \in DOMAIN Chars(keyword) : Chars(keyword)[i] = " "

\* C25: the two note searches return the empty list for a keyword that is
\* empty or made of blanks only, whatever the store; search_tasks with the
\* empty keyword returns the tasks of the repository in list order.
C25_EmptyKeywordAsymmetry ==
    [][/\ (/\ last'.op \in {"search_exploration_notes_global",
                             "search_exploration_notes_in_task"}
           /\ Blank(last'.args[Len(last'.args)])) => last'.result.items = <<>>
       /\ (last'.op = "search_tasks" /\ last'.args[1] = "") =>
                last'.result.items = tasks]_vars

\* the global search with a keyword of two blanks found nothing in a store
\* of two tasks where a note has a blank in its content
C25_BlankKeywordFoundNothing ==
    /\ Called("search_exploration_notes_global", "list")
    /\ last.args[1] = "  "
    /\ last.result.items = <<>>
    /\ Len(tasks) = 2
    /\ \E i \in DOMAIN tasks : \E j \in DOMAIN tasks[i].exploration_notes :
            tasks[i].exploration_notes[j].content = "b a"

(***************************************************************************)
(* The task list.  From the empty store, up to MaxTasks tasks are created, *)
(* deleted and moved in any sequence.                                      *)
(***************************************************************************)
NextTaskList ==
    \/ \E a \in CreateArgs : Len(tasks) < MaxTasks /\ create_task(a[1], a[2])
    \/ \E id \in TaskArgs : delete_task(id)
    \/ \E id \in TaskArgs, d \in Directions : move_task(id, d)

SpecTaskList == Init /\ [][NextTaskList]_vars

\* C26: the order of every task is its index in the task list, so the
\* orders of N tasks are 0..N-1 and no two tasks have the same order.
C26_TaskOrderIsListIndex ==
    \A i \in DOMAIN tasks : tasks[i].order = i - 1

(***************************************************************************)
(* The subtasks of one task.  From the empty store a planning task is      *)
(* created; up to MaxSubtasks subtasks are added to it, completed, deleted *)
(* and moved in any sequence.                                              *)
(***************************************************************************)
NextOneTask ==
    \/ tasks = <<>> /\ create_task(TaskMode_PLANNING, KNOWN_WHAT_KNOWN_HOW)
    \/ \E id \in LiveTasks :
            /\ \A i \in DOMAIN tasks : Len(tasks[i].subtasks) < MaxSubtasks
            /\ add_subtask(id)
    \/ \E id \in LiveTasks, sid \in LiveSubTasks : complete_subtask(id, sid)
    \/ \E id \in LiveTasks, sid \in LiveSubTasks : delete_subtask(id, sid)
    \/ \E id \in LiveTasks, sid \in LiveSubTasks, d \in Directions : move_subtask(id, sid, d)

SpecOneTask == Init /\ [][NextOneTask]_vars

\* C27: the order values of the N subtasks of a task are the values
\* 0..N-1, each once; a subtask that add_subtask added is the last of the
\* task's subtasks in ascending order.
C27_SubtaskOrdersAreDense ==
    [][/\ \A i \in DOMAIN tasks' : Normalized(tasks'[i].subtasks)
       /\ (last'.op = "add_subtask" /\ tasks' # tasks) =>
            LET subs == TaskOf(tasks', last'.args[1]).subtasks
            IN /\ last'.result = [kind |-> "SubTask", id |-> subs[Len(subs)].id]
               /\ OrderedIds(subs)[Len(subs)] = last'.result.id
               /\ Len(subs) = Len(TaskOf(tasks, last'.args[1]).subtasks) + 1]_vars

\* a subtask was added after a move and a delete: the task has the full
\* number of subtasks, which are not in ascending order in its list
C27_SubtaskAddedAfterMoveAndDelete ==
    /\ Called("add_subtask", "SubTask")
    /\ LET subs == TaskOf(tasks, last.args[1]).subtasks IN
       /\ Len(subs) = MaxSubtasks
       /\ subs[1].order > subs[2].order
       /\ subs[Len(subs)].id = last.result.id
       /\ subs[1].id > subs[Len(subs)].id

(***************************************************************************)
(* The status of one task.  From the empty store a task is created; its    *)
(* subtasks are added, completed, updated and deleted and its mode is      *)
(* switched, in any sequence, with MaxLive objects at most.                *)
(***************************************************************************)
NextStatus ==
    \/ \E a \in CreateArgs : tasks = <<>> /\ create_task(a[1], a[2])
    \/ \E id \in LiveTasks : add_subtask(id) /\ Live(tasks') <= MaxLive
    \/ \E id \in LiveTasks, sid \in LiveSubTasks : complete_subtask(id, sid)
    \/ \E id \in LiveTasks, sid \in LiveSubTasks, patch \in StatusPatches :
            update_subtask(id, sid, patch)
    \/ \E id \in LiveTasks, sid \in LiveSubTasks : delete_subtask(id, sid)
    \/ \E id \in LiveTasks, b \in BOOLEAN : switch_task_mode(id, b)

SpecStatus == Init /\ [][NextStatus]_vars

\* C28: the completed_at of a task is not None if and only if the status
\* of the task is COMPLETED.
C28_CompletedAtIffCompleted ==
    \A i \in DOMAIN tasks :
        (tasks[i].completed_at # None) <=> (tasks[i].status = TaskStatus_COMPLETED)

(***************************************************************************)
(* Drag and drop.  Releasing a dragged subtask or task card calls          *)
(* move_subtask or move_task once for every position the card was dragged  *)
(* over, all in the same direction.  A card is dragged in a loaded         *)
(* document, and may then be dragged back.                                 *)
(***************************************************************************)
\* variant: one call, however far the card was dragged
MoveSubtaskTimes_once(ts, task_id, subtask_id, direction, k, t) ==
    Database_move_subtask(ts, task_id, subtask_id, direction, t)

RECURSIVE MoveSubtaskTimes(_, _, _, _, _, _)
\* for _ in range(k): self.db.move_subtask(task.id, subtask.id, direction);
\* the result is True when every call returned True
MoveSubtaskTimes(ts, task_id, subtask_id, direction, k, t) ==
    IF k = 0 THEN Ret(ts, "True", 0, FALSE)
    ELSE CHOOSE out \in UNION {{Ret(rest.tasks,
                                     IF r.result.kind = "True" THEN rest.result.kind ELSE "False",
                                     0, r.save \/ rest.save) :
                    rest \in {MoveSubtaskTimes(r.tasks, task_id, subtask_id, direction, k - 1, t)}} :
                r \in {Database_move_subtask(ts, task_id, subtask_id, direction, t)}} : TRUE

RECURSIVE MoveTaskTimes(_, _, _, _, _)
\* for _ in range(k): self.db.move_task(task.id, direction)
MoveTaskTimes(ts, task_id, direction, k, t) ==
    IF k = 0 THEN Ret(ts, "True", 0, FALSE)
    ELSE CHOOSE out \in UNION {{Ret(rest.tasks,
                                     IF r.result.kind = "True" THEN rest.result.kind ELSE "False",
                                     0, r.save \/ rest.save) :
                    rest \in {MoveTaskTimes(r.tasks, task_id, direction, k - 1, t)}} :
                r \in {Database_move_task(ts, task_id, direction, t)}} : TRUE

_on_subtask_drag_end(task_id, subtask_id, direction, k) ==
    Call("_on_subtask_drag_end", <<task_id, subtask_id, direction, k>>,
         MoveSubtaskTimes(tasks, task_id, subtask_id, direction, k, now))

_on_task_drag_end(task_id, direction, k) ==
    Call("_on_task_drag_end", <<task_id, direction, k>>,
         MoveTaskTimes(tasks, task_id, direction, k, now))

InitDrag == \E ts \in OrderStores \cup TaskStores : Loaded(ts)

\* the last call was a drag in which every move returned True
Dragged(op) == last.op = op /\ last.result.kind = "True"

NextDrag ==
    \/ \E id \in TaskArgs, sid \in SubTaskArgs, d \in Directions, k \in 1..MaxSubtasks :
            Fresh /\ _on_subtask_drag_end(id, sid, d, k)
    \/ \E id \in TaskArgs, d \in Directions, k \in 1..MaxTasks :
            Fresh /\ _on_task_drag_end(id, d, k)
    \/ /\ Dragged("_on_subtask_drag_end")
       /\ _on_subtask_drag_end(last.args[1], last.args[2], -last.args[3], last.args[4])
    \/ /\ Dragged("_on_task_drag_end")
       /\ _on_task_drag_end(last.args[1], -last.args[2], last.args[3])

SpecDrag == InitDrag /\ [][NextDrag]_vars

\* seq without x
Except(seq, x) == LET Other(y) == y # x IN SelectSeq(seq, Other)

\* after is before with x moved by shift positions, the others in their order
Shifted(before, after, x, shift) ==
    /\ Len(after) = Len(before)
    /\ PositionOf(after, x) = PositionOf(before, x) + shift
    /\ Except(after, x) = Except(before, x)

\* C29: k calls in a row of move_subtask, or of move_task, with the same
\* direction d on the element at position i (of the order-sorted subtasks,
\* of the task list), with i + k*d inside the sequence, all return True and
\* leave the element at position i + k*d, the other elements in their
\* relative order and the orders 0..N-1; k calls with direction -d after
\* them all return True and give the sequence there was before.
C29_RepeatedMovesShift ==
    [][/\ (/\ last'.op = "_on_subtask_drag_end"
           /\ HasSubTask(tasks, last'.args[1], last'.args[2])) =>
            LET task_id == last'.args[1]
                subtask_id == last'.args[2]
                d == last'.args[3]
                k == last'.args[4]
            IN \A before \in {OrderedIds(TaskOf(tasks, task_id).subtasks)} :
               \A end \in {PositionOf(before, subtask_id) + k * d} :
               (1 <= end /\ end <= Len(before)) =>
                /\ last'.result.kind = "True"
                /\ \A after \in {TaskOf(tasks', task_id).subtasks} :
                    /\ Shifted(before, OrderedIds(after), subtask_id, k * d)
                    /\ Normalized(after)
                /\ \A back \in {MoveSubtaskTimes(tasks', task_id, subtask_id, -d, k, now)} :
                    /\ back.result.kind = "True"
                    /\ OrderedIds(TaskOf(back.tasks, task_id).subtasks) = before
       /\ (last'.op = "_on_task_drag_end" /\ last'.args[1] \in TaskIds(tasks)) =>
            LET task_id == last'.args[1]
                d == last'.args[2]
                k == last'.args[3]
            IN \A before \in {[r \in DOMAIN tasks |-> tasks[r].id]} :
               \A end \in {PositionOf(before, task_id) + k * d} :
               (1 <= end /\ end <= Len(before)) =>
                /\ last'.result.kind = "True"
                /\ Shifted(before, [r \in DOMAIN tasks' |-> tasks'[r].id], task_id, k * d)
                /\ \A r \in DOMAIN tasks' : tasks'[r].order = r - 1
                /\ \A back \in {MoveTaskTimes(tasks', task_id, -d, k, now)} :
                    /\ back.result.kind = "True"
                    /\ [r \in DOMAIN back.tasks |-> back.tasks[r].id] = before]_vars

\* the subtask that was last by order was dragged two positions up and is
\* the first of three by order, the other two in the order they had
C29_SubtaskDraggedTwoUp ==
    /\ Called("_on_subtask_drag_end", "True")
    /\ last.args[3] = -1
    /\ last.args[4] = 2
    /\ LET subs == TaskOf(tasks, last.args[1]).subtasks IN
       /\ Len(subs) = 3
       /\ OrderedIds(subs) = <<4, 2, 3>>
       /\ last.args[2] = 4
    /\ now > 1
    /\ disk.last_updated = isoformat(now)

\* C30: delete_subtask never changes the status or the completed_at of the
\* parent task (nor of any other task), also when the subtask it deletes was
\* the only one of the task that was not COMPLETED.
C30_DeleteSubtaskKeepsTaskStatus ==
    [][last'.op = "delete_subtask" =>
        /\ Len(tasks') = Len(tasks)
        /\ \A i \in DOMAIN tasks :
            /\ tasks'[i].id = tasks[i].id
            /\ tasks'[i].status = tasks[i].status
            /\ tasks'[i].completed_at = tasks[i].completed_at]_vars

\* the middle one of three subtasks was deleted, the two that are left are
\* COMPLETED, and the task is IN_PROGRESS with no completed_at
C30_OnlyOpenSubtaskDeleted ==
    /\ Called("delete_subtask", "True")
    /\ last.args = <<1, 3>>
    /\ LET task == TaskOf(tasks, 1) IN
       /\ [j \in DOMAIN task.subtasks |-> task.subtasks[j].id] = <<2, 4>>
       /\ \A j \in DOMAIN task.subtasks : task.subtasks[j].status = TaskStatus_COMPLETED
       /\ task.status = TaskStatus_IN_PROGRESS
       /\ task.completed_at = None

====
